---- MODULE Spec2Model ----
(***************************************************************************)
(* The retrieval core of notionSchedule (src/src/lib/rag.ts, class         *)
(* RAGSystem): chunking of pages, embedding generation, the snapshot file, *)
(* and the similarity search with its temporal re-ranking.                 *)
(*                                                                         *)
(* Data representation.                                                    *)
(*   - A JavaScript string that the code inspects (chunk content, the      *)
(*     query, property keys and values) is the sequence of its UTF-16      *)
(*     code units.  Strings that are only concatenated and compared (ids,  *)
(*     titles, urls, timestamps as text) are TLA+ strings.                 *)
(*   - A field the code only tests for truthiness (page.id, page.content,  *)
(*     page.last_edited_time, the title text) is the empty string when it  *)
(*     is absent: '' and undefined take the same branch of `x || y`.       *)
(*   - An optional value that is stored as it is (url, embedding,          *)
(*     page.metadata.properties) is a set with at most one element:        *)
(*     {} is undefined, {v} is v.                                          *)
(*   - A JavaScript object or Map is the sequence of its <<key, value>>    *)
(*     entries in insertion order, keys pairwise distinct.                 *)
(*   - A Date is its time value in hours since 2001-01-01T00:00, in a      *)
(*     process whose local time zone is UTC.                               *)
(***************************************************************************)
EXTENDS Integers, Sequences, FiniteSets, TLC

VARIABLES
    chunks,      \* RAGSystem.chunks: DocumentChunk[]
    embeddings,  \* RAGSystem.embeddings: Map<string, number[]>
    openai,      \* RAGSystem.openai: TRUE once initializeOpenAI has run, FALSE for null
    file,        \* the snapshot <tmpdir>/rag-data.json
    ret,         \* the last operation: its name, what it was given, what it returned or threw
    saved,       \* history: the store of the instance that last called saveToLocalStorage,
                 \* kept until the store or the file is changed by something else
    requests     \* the POST /api/initialize-rag requests in flight, each with the
                 \* RAGSystem its handler constructed

vars == <<chunks, embeddings, openai, file, ret, saved, requests>>

-----------------------------------------------------------------------------
(* Program constants *)

chunkSize == 1000

overlap == 200

batchSize == 100

-----------------------------------------------------------------------------
(* Bounds of the model *)

\* The stores that are searched hold at most MaxPages pages drawn from SearchPageSet.
MaxPages == 2

\* The embedding service answers as one of NumModels model revisions.
NumModels == 1

\* The large databases hold up to ExtraChunks chunks more than a whole number
\* of embedding batches.
ExtraChunks == 1

\* Texts given to splitIntoChunks are up to MaxSteps window steps long (plus a remainder).
MaxSteps == 3

\* Up to MaxRequests POST /api/initialize-rag requests are handled by the process.
MaxRequests == 2

-----------------------------------------------------------------------------
(* Generic helpers *)

Min(a, b) == IF a <= b THEN a ELSE b

Range(s) == {s[i] : i \in DOMAIN s}

Some(v) == {v}

None == {}

TheValue(opt) == CHOOSE v \in opt : TRUE

\* Math.ceil(a / b) for a >= 0, b > 0
Ceil(a, b) == (a + b - 1) \div b

\* String.prototype.substring(startIndex, endIndex) for 0 <= startIndex <= endIndex <= length
Substring(s, startIndex, endIndex) == SubSeq(s, startIndex + 1, endIndex)

\* String.prototype.includes
Includes(s, sub) ==
    \E i \in 0..(Len(s) - Len(sub)) : SubSeq(s, i + 1, i + Len(sub)) = sub

\* Object property assignment / Map.prototype.set on an entry sequence
MapSet(m, k, v) ==
    IF \E i \in DOMAIN m : m[i][1] = k
    THEN [i \in DOMAIN m |-> IF m[i][1] = k THEN <<k, v>> ELSE m[i]]
    ELSE Append(m, <<k, v>>)

MapHas(m, k) == \E i \in DOMAIN m : m[i][1] = k

MapGet(m, k) == m[CHOOSE i \in DOMAIN m : m[i][1] = k][2]

MapKeys(m) == {m[i][1] : i \in DOMAIN m}

\* m.set(entries[1][1], entries[1][2]); ..; m.set(entries[n][1], entries[n][2]),
\* in this order: a key keeps the place of its first insertion and holds the
\* value of its last set.
MapSetAll(m, entries) ==
    LET lastValue(k, old) ==
            IF \E j \in DOMAIN entries : entries[j][1] = k
            THEN entries[CHOOSE j \in DOMAIN entries :
                            /\ entries[j][1] = k
                            /\ \A x \in DOMAIN entries : entries[x][1] = k => x <= j][2]
            ELSE old
        firsts == {j \in DOMAIN entries :
                        /\ ~MapHas(m, entries[j][1])
                        /\ \A x \in 1..(j - 1) : entries[x][1] # entries[j][1]}
        before == [j \in firsts |-> Cardinality({x \in firsts : x < j})]
        nth(p) == CHOOSE j \in firsts : before[j] = p - 1
    IN [i \in DOMAIN m |-> <<m[i][1], lastValue(m[i][1], m[i][2])>>]
       \o [p \in 1..Cardinality(firsts) |->
                <<entries[nth(p)][1], lastValue(entries[nth(p)][1], entries[nth(p)][2])>>]

\* new Map(iterable of [key, value] pairs)
MapFromEntries(entries) == MapSetAll(<<>>, entries)

\* The concatenation parts[lo] \o .. \o parts[hi] of a sequence of sequences.
RECURSIVE Flatten(_, _, _)
Flatten(parts, lo, hi) ==
    IF lo > hi THEN <<>>
    ELSE IF lo = hi THEN parts[lo]
    ELSE LET mid == (lo + hi) \div 2
         IN Flatten(parts, lo, mid) \o Flatten(parts, mid + 1, hi)

-----------------------------------------------------------------------------
(* Dates: time values in hours since 2001-01-01T00:00 (valid for 2001..2099) *)

HoursPerDay == 24

IsLeap(y) == y % 4 = 0

DaysBeforeYear(y) == 365 * (y - 2001) + ((y - 2001) \div 4)

DaysInMonth(y, m) ==
    IF m = 2 THEN (IF IsLeap(y) THEN 29 ELSE 28)
    ELSE IF m \in {4, 6, 9, 11} THEN 30 ELSE 31

RECURSIVE DaysBeforeMonth(_, _)
DaysBeforeMonth(y, m) ==
    IF m <= 1 THEN 0 ELSE DaysBeforeMonth(y, m - 1) + DaysInMonth(y, m - 1)

\* new Date(year, monthIndex, day): local midnight; a day past the end of the
\* month rolls over into the next month (ECMAScript MakeDay).
NewDate(year, monthIndex, day) ==
    (DaysBeforeYear(year) + DaysBeforeMonth(year, monthIndex + 1) + day - 1) * HoursPerDay

\* Date.prototype.getFullYear
GetFullYear(t) ==
    LET guess == 2001 + (t \div (HoursPerDay * 366))
    IN CHOOSE y \in guess..(guess + 1) :
        /\ DaysBeforeYear(y) * HoursPerDay <= t
        /\ t < DaysBeforeYear(y + 1) * HoursPerDay

\* The calendar fields of a time value: year, month (1-12), day of the month, hour.
CivilOf(t) ==
    LET year == GetFullYear(t)
        dayOfYear == (t \div HoursPerDay) - DaysBeforeYear(year)
        month == CHOOSE m \in 1..12 :
                    /\ DaysBeforeMonth(year, m) <= dayOfYear
                    /\ dayOfYear < DaysBeforeMonth(year, m + 1)
    IN [year |-> year, month |-> month,
        day |-> dayOfYear - DaysBeforeMonth(year, month) + 1,
        hour |-> t % HoursPerDay]

Pad2(n) == IF n < 10 THEN "0" \o ToString(n) ELSE ToString(n)

\* Date.prototype.toISOString
ToISOString(t) ==
    LET c == CivilOf(t)
    IN ToString(c.year) \o "-" \o Pad2(c.month) \o "-" \o Pad2(c.day)
        \o "T" \o Pad2(c.hour) \o ":00:00.000Z"

-----------------------------------------------------------------------------
(* Text literals, as UTF-16 code units *)

Untitled == <<85, 110, 116, 105, 116, 108, 101, 100>>          \* 'Untitled'

TitleLabel == <<51228, 47785, 58, 32>>                         \* '제목: '

ColonSpace == <<58, 32>>                                       \* ': '

NewLine == <<10>>                                              \* '\n'

EndSuffix == <<95, 101, 110, 100>>                             \* '_end'

-----------------------------------------------------------------------------
(* Text Extractor and Chunker *)

\* page.properties?.title?.title?.[0]?.plain_text || 'Untitled'
TitleOf(page) ==
    IF page.properties # None /\ TheValue(page.properties).title # <<>>
    THEN TheValue(page.properties).title
    ELSE Untitled

\* One line per date-typed property: `${key}: ${property.date.start}\n`
\* (a property whose text is '' contributes no line).
RECURSIVE PropertyLines(_)
PropertyLines(dates) ==
    IF dates = <<>> THEN <<>>
    ELSE (IF Head(dates).start # <<>>
          THEN Head(dates).key \o ColonSpace \o Head(dates).start \o NewLine
          ELSE <<>>) \o PropertyLines(Tail(dates))

\* extractTextContent.  The pages of the model carry a title and date-typed
\* properties only, and a page without pre-flattened content carries no
\* created_time / last_edited_time, so no timestamp line is rendered.
ExtractTextContent(page) ==
    IF page.content # <<>> THEN page.content
    ELSE IF page.properties = None THEN <<>>
    ELSE (IF TheValue(page.properties).title # <<>>
          THEN TitleLabel \o TheValue(page.properties).title \o NewLine
          ELSE <<>>) \o PropertyLines(TheValue(page.properties).dates)

\* The loop of splitIntoChunks that copies each date property's start (and
\* end, under `${key}_end`) into metadata.properties.
RECURSIVE DatePropertiesOf(_, _)
DatePropertiesOf(dates, acc) ==
    IF dates = <<>> THEN acc
    ELSE LET d == Head(dates)
             a1 == IF d.start # <<>> THEN MapSet(acc, d.key, d.start) ELSE acc
             a2 == IF d.start # <<>> /\ d.end # <<>>
                   THEN MapSet(a1, d.key \o EndSuffix, d.end) ELSE a1
         IN DatePropertiesOf(Tail(dates), a2)

\* The metadata template of splitIntoChunks.
MetadataTemplate(title, page, now) ==
    [title |-> title,
     pageId |-> IF page.id # "" THEN page.id ELSE "unknown",
     lastModified |-> IF page.last_edited_time # "" THEN page.last_edited_time
                      ELSE ToISOString(now),
     url |-> page.url,
     properties |->
        IF page.metadataProperties # None THEN TheValue(page.metadataProperties)
        ELSE IF page.properties # None
             THEN DatePropertiesOf(TheValue(page.properties).dates, <<>>)
             ELSE <<>>]

\* `${page.id || 'chunk'}-${chunkIndex}`
ChunkId(page, chunkIndex) ==
    (IF page.id # "" THEN page.id ELSE "chunk") \o "-" \o ToString(chunkIndex)

MakeChunk(page, content, metadata, chunkIndex, totalChunks) ==
    [id |-> ChunkId(page, chunkIndex),
     content |-> content,
     metadata |-> [title |-> metadata.title,
                   pageId |-> metadata.pageId,
                   lastModified |-> metadata.lastModified,
                   url |-> metadata.url,
                   properties |-> metadata.properties,
                   chunkIndex |-> chunkIndex,
                   totalChunks |-> totalChunks],
     embedding |-> None]

\* A loop that advances by a whole window: consecutive chunks share nothing.
WindowStepNoOverlap == chunkSize

\* startIndex += chunkSize - overlap
WindowStep == chunkSize - overlap

\* A window as long as the step only.
EndIndexOfStep(content, startIndex) == Min(startIndex + chunkSize - overlap, Len(content))

\* const endIndex = Math.min(startIndex + chunkSize, content.length)
EndIndex(content, startIndex) == Min(startIndex + chunkSize, Len(content))

\* The while loop of splitIntoChunks.
RECURSIVE SplitLoop(_, _, _, _, _, _)
SplitLoop(content, page, metadata, startIndex, chunkIndex, acc) ==
    IF startIndex < Len(content)
    THEN LET endIndex == EndIndex(content, startIndex)
             chunkContent == Substring(content, startIndex, endIndex)
         IN SplitLoop(content, page, metadata,
                      startIndex + WindowStep, chunkIndex + 1,
                      Append(acc, MakeChunk(page, chunkContent, metadata, chunkIndex,
                                            Ceil(Len(content), chunkSize - overlap))))
    ELSE acc

\* splitIntoChunks sending a text of exactly chunkSize characters to the loop.
SplitIntoChunksStrict(content, title, page, now) ==
    LET metadata == MetadataTemplate(title, page, now)
    IN IF Len(content) < chunkSize
       THEN <<MakeChunk(page, content, metadata, 0, 1)>>
       ELSE SplitLoop(content, page, metadata, 0, 0, <<>>)

SplitIntoChunks(content, title, page, now) ==
    LET metadata == MetadataTemplate(title, page, now)
    IN IF Len(content) <= chunkSize
       THEN <<MakeChunk(page, content, metadata, 0, 1)>>
       ELSE SplitLoop(content, page, metadata, 0, 0, <<>>)

\* The body of processNotionData: the chunks of every page, in page order
\* (this.chunks.push(...pageChunks) for each page).
ProcessPages(notionData, now) ==
    Flatten([p \in DOMAIN notionData |->
                SplitIntoChunks(ExtractTextContent(notionData[p]), TitleOf(notionData[p]),
                                notionData[p], now)],
            1, Len(notionData))

-----------------------------------------------------------------------------
(* Embedding service (external): openai.embeddings.create *)

\* The vectors the service answers with.  All have norm 5, so that every
\* cosine similarity is a multiple of 1/25.
Vectors == << <<3, 4>>, <<4, 3>>, <<-3, -4>>, <<5, 0>>, <<0, -5>> >>

\* The service is a function of the input text for a given model revision.
Models == 0..(NumModels - 1)

CharSum(text) == IF text = <<>> THEN 0 ELSE text[1] + text[Len(text)] + Len(text)

EmbeddingOf(model, text) == Vectors[((CharSum(text) + 2 * model) % Len(Vectors)) + 1]

-----------------------------------------------------------------------------
(* Embedding Client: generateEmbeddings *)

NumBatches(chs) == Ceil(Len(chs), batchSize)

\* response.data.forEach((embedding, index) => { .. }):
\* this.embeddings.set(batch[index].id, embedding.embedding) for every index in turn
CommitBatchMap(emb, batch, response) ==
    MapSetAll(emb, [j \in DOMAIN response |-> <<batch[j].id, response[j]>>])

\* The assignment with the response taken one place late: chunk i + index gets
\* the vector of index - 1.
CommitBatchChunksShifted(chs, i, response) ==
    [k \in DOMAIN chs |->
        IF k > i + 1 /\ k <= i + Len(response)
        THEN [chs[k] EXCEPT !.embedding = Some(response[k - i - 1])]
        ELSE chs[k]]

\* .. and this.chunks[i + index].embedding = embedding.embedding
CommitBatchChunks(chs, i, response) ==
    [k \in DOMAIN chs |->
        IF k > i /\ k <= i + Len(response)
        THEN [chs[k] EXCEPT !.embedding = Some(response[k - i])]
        ELSE chs[k]]

\* The for loop of generateEmbeddings from offset i on.  `failAt` is the
\* number (from 1) of the batch whose service call rejects, 0 if none does.
\* Yields the store as the run leaves it, what the run threw, and the number
\* of service calls issued.
RECURSIVE GenerateLoop(_, _, _, _, _, _, _)
GenerateLoop(chs, emb, client, i, model, failAt, calls) ==
    IF i >= Len(chs)
    THEN [chunks |-> chs, embeddings |-> emb, threw |-> "none", calls |-> calls]
    ELSE LET batch == SubSeq(chs, i + 1, Min(i + batchSize, Len(chs)))
             texts == [j \in DOMAIN batch |-> batch[j].content]
         IN IF ~client
            THEN [chunks |-> chs, embeddings |-> emb, threw |-> "config", calls |-> calls]
            ELSE IF failAt = (i \div batchSize) + 1
            THEN [chunks |-> chs, embeddings |-> emb, threw |-> "api", calls |-> calls + 1]
            ELSE LET response == [j \in DOMAIN texts |-> EmbeddingOf(model, texts[j])]
                 IN GenerateLoop(CommitBatchChunks(chs, i, response),
                                 CommitBatchMap(emb, batch, response),
                                 client, i + batchSize, model, failAt, calls + 1)

-----------------------------------------------------------------------------
(* Index Store: the snapshot file *)

NoFile == [exists |-> FALSE]

FileWith(text) == [exists |-> TRUE, text |-> text]

\* A file that fs.readFileSync cannot read or whose text JSON.parse rejects.
NotJson == [valid |-> FALSE]

JsonText(value) == [valid |-> TRUE, value |-> value]

JsonNull == [type |-> "null"]

\* A snapshot that leaves the chunks' embedding field out.
JsonOfChunkNoEmbedding(c) ==
    LET meta == [title |-> c.metadata.title,
                 pageId |-> c.metadata.pageId,
                 lastModified |-> c.metadata.lastModified,
                 properties |-> c.metadata.properties,
                 chunkIndex |-> c.metadata.chunkIndex,
                 totalChunks |-> c.metadata.totalChunks]
                @@ (IF c.metadata.url = None THEN <<>>
                    ELSE [k \in {"url"} |-> TheValue(c.metadata.url)])
    IN [id |-> c.id, content |-> c.content, metadata |-> meta]

\* JSON.stringify of a chunk: a key whose value is undefined is left out.
JsonOfChunk(c) ==
    LET meta == [title |-> c.metadata.title,
                 pageId |-> c.metadata.pageId,
                 lastModified |-> c.metadata.lastModified,
                 properties |-> c.metadata.properties,
                 chunkIndex |-> c.metadata.chunkIndex,
                 totalChunks |-> c.metadata.totalChunks]
                @@ (IF c.metadata.url = None THEN <<>>
                    ELSE [k \in {"url"} |-> TheValue(c.metadata.url)])
    IN [id |-> c.id, content |-> c.content, metadata |-> meta]
       @@ (IF c.embedding = None THEN <<>>
           ELSE [k \in {"embedding"} |-> TheValue(c.embedding)])

\* A chunk object read back from JSON: a key that is not there reads as undefined.
ChunkOfJson(j) ==
    [id |-> j.id,
     content |-> j.content,
     metadata |-> [title |-> j.metadata.title,
                   pageId |-> j.metadata.pageId,
                   lastModified |-> j.metadata.lastModified,
                   url |-> IF "url" \in DOMAIN j.metadata THEN Some(j.metadata.url) ELSE None,
                   properties |-> j.metadata.properties,
                   chunkIndex |-> j.metadata.chunkIndex,
                   totalChunks |-> j.metadata.totalChunks],
     embedding |-> IF "embedding" \in DOMAIN j THEN Some(j.embedding) ELSE None]

\* JSON.stringify({chunks, embeddings: Array.from(this.embeddings.entries()), lastUpdated})
SnapshotOf(chs, emb, now) ==
    JsonText([type |-> "object",
              chunks |-> Some([i \in DOMAIN chs |-> JsonOfChunk(chs[i])]),
              embeddings |-> Some([type |-> "array", items |-> emb]),
              lastUpdated |-> ToISOString(now)])

\* The file after fs.writeFileSync.  outcome "ok": written.  A write that
\* throws leaves the file as it was ("failed", e.g. it could not be opened)
\* or cut short ("truncated": opened, and so emptied, before the error).
WriteFile(old, text, outcome) ==
    CASE outcome = "ok" -> FileWith(text)
      [] outcome = "failed" -> old
      [] outcome = "truncated" -> FileWith(NotJson)

WriteOutcomes == {"ok", "failed", "truncated"}

\* loadFromLocalStorage in a Node.js process: the store it leaves and its result.
LoadFromFile(f, chs, emb) ==
    IF ~f.exists THEN [chunks |-> chs, embeddings |-> emb, result |-> FALSE]
    ELSE IF ~f.text.valid
    THEN \* JSON.parse throws
         [chunks |-> chs, embeddings |-> emb, result |-> FALSE]
    ELSE LET data == f.text.value IN
         IF data.type = "null"
         THEN \* data.chunks throws a TypeError
              [chunks |-> chs, embeddings |-> emb, result |-> FALSE]
         ELSE LET newChunks ==
                      IF data.chunks = None THEN <<>>
                      ELSE [i \in DOMAIN TheValue(data.chunks) |->
                                ChunkOfJson(TheValue(data.chunks)[i])]
              IN IF data.embeddings = None
                 THEN [chunks |-> newChunks, embeddings |-> <<>>, result |-> TRUE]
                 ELSE IF TheValue(data.embeddings).type # "array"
                 THEN \* new Map(<not iterable>) throws after this.chunks was assigned
                      [chunks |-> newChunks, embeddings |-> emb, result |-> FALSE]
                 ELSE [chunks |-> newChunks,
                       embeddings |-> MapFromEntries(TheValue(data.embeddings).items),
                       result |-> TRUE]

-----------------------------------------------------------------------------
(* Date extraction: extractDatesFromChunk *)

IsDigit(c) == c >= 48 /\ c <= 57

\* \s of a JavaScript regular expression
WhiteSpace ==
    {9, 10, 11, 12, 13, 32, 160, 5760, 8232, 8233, 8239, 8287, 12288, 65279}
        \cup (8192..8202)

YearSeparators == {45380, 46} \cup WhiteSpace       \* [년\.\s]

MonthSeparators == {50900, 46} \cup WhiteSpace      \* [월\.\s]

DaySeparators == {51068, 46} \cup WhiteSpace        \* [일\.\s]

\* Positions are 0-based offsets into the string, as lastIndex is.
CharAt(s, pos) == s[pos + 1]

DigitsAt(s, pos, n) ==
    /\ pos + n <= Len(s)
    /\ \A k \in 0..(n - 1) : IsDigit(CharAt(s, pos + k))

\* parseInt of the n digits at pos
RECURSIVE ParseInt(_, _, _)
ParseInt(s, pos, n) ==
    IF n = 0 THEN 0
    ELSE ParseInt(s, pos, n - 1) * 10 + (CharAt(s, pos + n - 1) - 48)

\* The offset after the longest run of characters of `class` starting at pos.
RECURSIVE SkipClass(_, _, _)
SkipClass(s, pos, class) ==
    IF pos < Len(s) /\ CharAt(s, pos) \in class THEN SkipClass(s, pos + 1, class) ELSE pos

NoMatch == [found |-> FALSE]

\* (\d{1,2})[일\.\s]* at pos, the longer digit run first
DayMatchAt(s, pos) ==
    IF DigitsAt(s, pos, 2)
    THEN [found |-> TRUE, day |-> ParseInt(s, pos, 2),
          end |-> SkipClass(s, pos + 2, DaySeparators)]
    ELSE IF DigitsAt(s, pos, 1)
    THEN [found |-> TRUE, day |-> ParseInt(s, pos, 1),
          end |-> SkipClass(s, pos + 1, DaySeparators)]
    ELSE NoMatch

\* (\d{1,2})[월\.\s]*(\d{1,2})[일\.\s]* at pos: two month digits are tried
\* first, and one when no day can follow the two.
MonthDayMatchAt(s, pos) ==
    LET two == IF DigitsAt(s, pos, 2)
               THEN DayMatchAt(s, SkipClass(s, pos + 2, MonthSeparators))
               ELSE NoMatch
        one == IF DigitsAt(s, pos, 1)
               THEN DayMatchAt(s, SkipClass(s, pos + 1, MonthSeparators))
               ELSE NoMatch
    IN IF two.found
       THEN [found |-> TRUE, month |-> ParseInt(s, pos, 2), day |-> two.day, end |-> two.end]
       ELSE IF one.found
       THEN [found |-> TRUE, month |-> ParseInt(s, pos, 1), day |-> one.day, end |-> one.end]
       ELSE NoMatch

\* /(\d{4})[년\.\s]*(\d{1,2})[월\.\s]*(\d{1,2})[일\.\s]*/ anchored at pos
KoreanDateMatchAt(s, pos) ==
    IF ~DigitsAt(s, pos, 4) THEN NoMatch
    ELSE LET md == MonthDayMatchAt(s, SkipClass(s, pos + 4, YearSeparators))
         IN IF md.found
            THEN [found |-> TRUE, year |-> ParseInt(s, pos, 4),
                  month |-> md.month, day |-> md.day, end |-> md.end]
            ELSE NoMatch

\* /(\d{4})-(\d{2})-(\d{2})/ anchored at pos
IsoDateMatchAt(s, pos) ==
    IF /\ pos + 10 <= Len(s)
       /\ DigitsAt(s, pos, 4) /\ CharAt(s, pos + 4) = 45
       /\ DigitsAt(s, pos + 5, 2) /\ CharAt(s, pos + 7) = 45
       /\ DigitsAt(s, pos + 8, 2)
    THEN [found |-> TRUE, year |-> ParseInt(s, pos, 4),
          month |-> ParseInt(s, pos + 5, 2), day |-> ParseInt(s, pos + 8, 2),
          end |-> pos + 10]
    ELSE NoMatch

PatternMatchAt(pattern, s, pos) ==
    IF pattern = "korean" THEN KoreanDateMatchAt(s, pos) ELSE IsoDateMatchAt(s, pos)

\* The range test without its condition on the year.
AcceptedDateAnyYear(year, month, day) ==
    /\ month >= 0 /\ month <= 11
    /\ day >= 1 /\ day <= 31

\* The range test both loops apply before dates.push(new Date(year, month, day)),
\* on the 0-based month.
AcceptedDate(year, month, day) ==
    /\ year >= 2020 /\ year <= 2030
    /\ month >= 0 /\ month <= 11
    /\ day >= 1 /\ day <= 31

\* while ((match = regex.exec(content)) !== null) { .. }: the matches of a
\* global regular expression, leftmost first, each search resuming at the end
\* of the match before.
RECURSIVE ScanDates(_, _, _, _)
ScanDates(pattern, s, pos, dates) ==
    IF pos >= Len(s) THEN dates
    ELSE LET m == PatternMatchAt(pattern, s, pos)
         IN IF ~m.found THEN ScanDates(pattern, s, pos + 1, dates)
            ELSE ScanDates(pattern, s, m.end,
                           IF AcceptedDate(m.year, m.month - 1, m.day)
                           THEN Append(dates, NewDate(m.year, m.month - 1, m.day))
                           ELSE dates)

\* String.prototype.toLowerCase on the letters A-Z
ToLowerCase(s) == [i \in DOMAIN s |-> IF s[i] >= 65 /\ s[i] <= 90 THEN s[i] + 32 ELSE s[i]]

\* key.toLowerCase().includes('date') || key.includes('날짜') || key.includes('일정')
IsDateKey(key) ==
    \/ Includes(ToLowerCase(key), <<100, 97, 116, 101>>)
    \/ Includes(key, <<45216, 51676>>)
    \/ Includes(key, <<51068, 51221>>)

\* new Date(value) for a string value: the time value, or None for an Invalid
\* Date.  Property values are date-only ISO strings 'YYYY-MM-DD' of a real
\* calendar day (read as UTC midnight) or text without a date.
ParseDateString(value) ==
    LET m == IsoDateMatchAt(value, 0)
    IN IF /\ Len(value) = 10 /\ m.found
          /\ m.year >= 2001 /\ m.year <= 2099
          /\ m.month >= 1 /\ m.month <= 12
          /\ m.day >= 1 /\ m.day <= DaysInMonth(m.year, m.month)
       THEN Some(NewDate(m.year, m.month - 1, m.day))
       ELSE None

RECURSIVE PropertyDates(_, _)
PropertyDates(properties, dates) ==
    IF properties = <<>> THEN dates
    ELSE LET key == Head(properties)[1]
             date == ParseDateString(Head(properties)[2])
         IN PropertyDates(Tail(properties),
                IF /\ IsDateKey(key)
                   /\ date # None
                   /\ GetFullYear(TheValue(date)) >= 2020
                   /\ GetFullYear(TheValue(date)) <= 2030
                THEN Append(dates, TheValue(date))
                ELSE dates)

ExtractDatesFromChunk(chunk) ==
    PropertyDates(chunk.metadata.properties,
                  ScanDates("iso", chunk.content, 0,
                            ScanDates("korean", chunk.content, 0, <<>>)))

-----------------------------------------------------------------------------
(* Similarity Search Engine: searchSimilarChunks *)

\* Scores are exact: a cosine similarity is counted in units of
\* 1/SimilarityScale, a multiplier in tenths, a score in units of
\* 1/(10 * SimilarityScale).
SimilarityScale == 5 * 5

RECURSIVE Dot(_, _, _)
Dot(a, b, n) == IF n = 0 THEN 0 ELSE Dot(a, b, n - 1) + a[n] * b[n]

\* Math.sqrt, on the perfect squares the vectors of the model give
Sqrt(n) == CHOOSE r \in 0..n : r * r = n

\* cosineSimilarity, in units of 1/SimilarityScale
CosineSimilarity(a, b) ==
    IF Len(a) # Len(b) THEN 0
    ELSE (Dot(a, b, Len(a)) * SimilarityScale)
            \div (Sqrt(Dot(a, a, Len(a))) * Sqrt(Dot(b, b, Len(b))))

RecentKeywords ==       \* /최근|요즘|지금|오늘|이번|근래/
    { <<52572, 44540>>, <<50836, 51608>>, <<51648, 44552>>,
      <<50724, 45720>>, <<51060, 48264>>, <<44540, 47000>> }

UpcomingKeywords ==     \* /다가오는|앞으로|미래|예정|곧/
    { <<45796, 44032, 50724, 45716>>, <<50526, 51004, 47196>>,
      <<48120, 47000>>, <<50696, 51221>>, <<44263>> }

PastKeywords ==         \* /지난|과거|전에|이전/
    { <<51648, 45212>>, <<44284, 44144>>, <<51204, 50640>>, <<51060, 51204>> }

\* regex.test(query) for an alternation of literal words
TestKeywords(keywords, query) == \E kw \in keywords : Includes(query, kw)

IsRecentQuery(query) == TestKeywords(RecentKeywords, query)

IsUpcomingQuery(query) == TestKeywords(UpcomingKeywords, query)

IsPastQuery(query) == TestKeywords(PastKeywords, query)

SevenDays == 7 * HoursPerDay

\* The test with the two ends of the recent window left out of it.
DateMatchesWindowOpen(query, chunkDate, now) ==
    IF IsRecentQuery(query)
    THEN chunkDate > now - SevenDays /\ chunkDate < now + SevenDays
    ELSE IF IsUpcomingQuery(query) THEN chunkDate > now
    ELSE IF IsPastQuery(query) THEN chunkDate < now
    ELSE FALSE

\* The test with the window of every family the query matches.
DateMatchesAnyFamily(query, chunkDate, now) ==
    \/ IsRecentQuery(query) /\ chunkDate >= now - SevenDays /\ chunkDate <= now + SevenDays
    \/ IsUpcomingQuery(query) /\ chunkDate > now
    \/ IsPastQuery(query) /\ chunkDate < now

\* The test one extracted date gets in the inner loop.
DateMatchesWindow(query, chunkDate, now) ==
    IF IsRecentQuery(query)
    THEN chunkDate >= now - SevenDays /\ chunkDate <= now + SevenDays
    ELSE IF IsUpcomingQuery(query) THEN chunkDate > now
    ELSE IF IsPastQuery(query) THEN chunkDate < now
    ELSE FALSE

\* The test with every() in place of some().
TooOldForRecentEvery(query, chunkDates) ==
    /\ IsRecentQuery(query)
    /\ \A i \in DOMAIN chunkDates : GetFullYear(chunkDates[i]) < 2024

\* `isRecentQuery && chunkDates.some(d => d.getFullYear() < 2024)`
TooOldForRecent(query, chunkDates) ==
    /\ IsRecentQuery(query)
    /\ \E i \in DOMAIN chunkDates : GetFullYear(chunkDates[i]) < 2024

\* The loop body dropping the chunks that carry no date on a temporal query.
ScoreChunkDateBlindDropped(chunk, queryEmbedding, query, now) ==
    LET similarity == CosineSimilarity(queryEmbedding, TheValue(chunk.embedding))
        chunkDates == ExtractDatesFromChunk(chunk)
        dateMatches == \E i \in DOMAIN chunkDates :
                           DateMatchesWindow(query, chunkDates[i], now)
    IN IF IsRecentQuery(query) \/ IsUpcomingQuery(query) \/ IsPastQuery(query)
       THEN IF Len(chunkDates) > 0
            THEN IF ~dateMatches
                 THEN IF TooOldForRecent(query, chunkDates) THEN None
                      ELSE Some([chunk |-> chunk, score |-> similarity * 3])
                 ELSE Some([chunk |-> chunk, score |-> similarity * 12])
            ELSE None
       ELSE Some([chunk |-> chunk, score |-> similarity * 10])

\* The loop body with the date-blind penalty applied to plain queries as well.
ScoreChunkPlainPenalised(chunk, queryEmbedding, query, now) ==
    LET similarity == CosineSimilarity(queryEmbedding, TheValue(chunk.embedding))
        chunkDates == ExtractDatesFromChunk(chunk)
        dateMatches == \E i \in DOMAIN chunkDates :
                           DateMatchesWindow(query, chunkDates[i], now)
    IN IF IsRecentQuery(query) \/ IsUpcomingQuery(query) \/ IsPastQuery(query)
       THEN IF Len(chunkDates) > 0
            THEN IF ~dateMatches
                 THEN IF TooOldForRecent(query, chunkDates) THEN None
                      ELSE Some([chunk |-> chunk, score |-> similarity * 3])
                 ELSE Some([chunk |-> chunk, score |-> similarity * 12])
            ELSE Some([chunk |-> chunk, score |-> similarity * 5])
       ELSE Some([chunk |-> chunk, score |-> similarity * 5])

\* What the loop body does with one embedded chunk: the result it pushes, if any.
\* The multiplier is in tenths (12 for 1.2, 5 for 0.5, 3 for 0.3, 10 for 1).
ScoreChunk(chunk, queryEmbedding, query, now) ==
    LET similarity == CosineSimilarity(queryEmbedding, TheValue(chunk.embedding))
        chunkDates == ExtractDatesFromChunk(chunk)
        dateMatches == \E i \in DOMAIN chunkDates :
                           DateMatchesWindow(query, chunkDates[i], now)
    IN IF IsRecentQuery(query) \/ IsUpcomingQuery(query) \/ IsPastQuery(query)
       THEN IF Len(chunkDates) > 0
            THEN IF ~dateMatches
                 THEN IF TooOldForRecent(query, chunkDates) THEN None
                      ELSE Some([chunk |-> chunk, score |-> similarity * 3])
                 ELSE Some([chunk |-> chunk, score |-> similarity * 12])
            ELSE Some([chunk |-> chunk, score |-> similarity * 5])
       ELSE Some([chunk |-> chunk, score |-> similarity * 10])

\* `if (!chunk.embedding) continue;`
IsSearchable(chunk) == chunk.embedding # None

\* The loop without its first line: a chunk without an embedding is pushed
\* with the similarity 0 that cosineSimilarity gives vectors it cannot compare.
SimilaritiesNoSkip(chs, queryEmbedding, query, now) ==
    Flatten([i \in DOMAIN chs |->
                LET pushed == IF IsSearchable(chs[i])
                              THEN ScoreChunk(chs[i], queryEmbedding, query, now)
                              ELSE Some([chunk |-> chs[i], score |-> 0])
                IN IF pushed = None THEN <<>> ELSE <<TheValue(pushed)>>],
            1, Len(chs))

\* for (const chunk of this.chunks) { .. }: the results pushed, in store order
Similarities(chs, queryEmbedding, query, now) ==
    Flatten([i \in DOMAIN chs |->
                LET pushed == IF IsSearchable(chs[i])
                              THEN ScoreChunk(chs[i], queryEmbedding, query, now)
                              ELSE None
                IN IF pushed = None THEN <<>> ELSE <<TheValue(pushed)>>],
            1, Len(chs))

\* The sort with the comparator turned round: ascending.
SortByScoreAscending(results) ==
    LET rank(i) == Cardinality({j \in DOMAIN results :
                        \/ results[j].score < results[i].score
                        \/ results[j].score = results[i].score /\ j < i}) + 1
    IN [p \in DOMAIN results |-> results[CHOOSE i \in DOMAIN results : rank(i) = p]]

\* Array.prototype.sort((a, b) => b.score - a.score): descending and stable, so
\* a result comes after every result of a higher score and after every earlier
\* result of the same score.
SortByScore(results) ==
    LET rank == [i \in DOMAIN results |->
                    Cardinality({j \in DOMAIN results :
                        \/ results[j].score > results[i].score
                        \/ results[j].score = results[i].score /\ j < i}) + 1]
    IN [p \in DOMAIN results |-> results[CHOOSE i \in DOMAIN results : rank[i] = p]]

\* Array.prototype.slice(0, topK) for topK >= 0
SliceTop(results, topK) == SubSeq(results, 1, Min(topK, Len(results)))

SearchResults(chs, queryEmbedding, query, now, topK) ==
    SliceTop(SortByScore(Similarities(chs, queryEmbedding, query, now)), topK)

-----------------------------------------------------------------------------
(* Inputs of the store model *)

\* The instant every clock reading of the store model returns: 2026-11-02T12:00.
BuildTime == NewDate(2026, 10, 2) + 12

Clock == {BuildTime}

\* A page as the chat route builds it: id, title, content, url, date metadata.
PageA ==
    [id |-> "notion-page-0",
     content |-> <<54924, 51032, 47197>>,
     properties |-> Some([title |-> <<65>>, dates |-> <<>>]),
     last_edited_time |-> "2025-06-01T00:00:00.000Z",
     url |-> Some("https://notion.so/a"),
     metadataProperties |-> Some(<< <<<<68, 97, 116, 101>>, <<50, 48, 50, 53, 45, 48, 54, 45, 50, 55>>>> >>)]

\* Two pages without an id, a url or a last_edited_time.
PageB ==
    [id |-> "",
     content |-> <<47700, 47784, 32, 50, 48, 50, 53, 45, 48, 54, 45, 50, 55>>,
     properties |-> None,
     last_edited_time |-> "",
     url |-> None,
     metadataProperties |-> None]

PageC ==
    [id |-> "",
     content |-> <<>>,
     properties |-> Some([title |-> <<54624, 32, 51068>>,
                          dates |-> << [key |-> <<68, 97, 116, 101>>, start |-> <<50, 48, 50, 53, 45, 48, 54, 45, 50, 55>>,
                                        end |-> <<>>] >>]),
     last_edited_time |-> "",
     url |-> None,
     metadataProperties |-> None]

RECURSIVE SeqsUpTo(_, _)
SeqsUpTo(S, n) ==
    IF n = 0 THEN {<<>>}
    ELSE LET shorter == SeqsUpTo(S, n - 1)
         IN shorter \cup {Append(q, x) : q \in {r \in shorter : Len(r) = n - 1}, x \in S}

\* The page lists of the store model: an empty database, one page with an id,
\* two pages without one.
PageLists == {<<>>, <<PageA>>, <<PageB, PageC>>}

PlainQuery == <<54924, 51032>>

RecentQuery == <<52572, 44540, 32, 54924, 51032>>

StoreQueries == {RecentQuery}

StoreTopKs == {5}

\* The store model embeds with one model revision.
StoreModels == {0}

\* What a foreign writer can leave in the snapshot file.
ForeignChunks == [i \in {1} |-> JsonOfChunk(ProcessPages(<<PageB>>, BuildTime)[1])]

\* A snapshot in the format of saveToLocalStorage that holds an embedded and an
\* unembedded chunk.
PartialChunks ==
    LET chs == ProcessPages(<<PageA, PageB>>, BuildTime)
    IN CommitBatchChunks(chs, 0, <<EmbeddingOf(0, chs[1].content)>>)

PartialEmbeddings ==
    MapSet(<<>>, PartialChunks[1].id, TheValue(PartialChunks[1].embedding))

ForeignFiles ==
    { NoFile,
      FileWith(SnapshotOf(PartialChunks, PartialEmbeddings, BuildTime)),
      FileWith(NotJson),
      FileWith(JsonText(JsonNull)),
      \* {}
      FileWith(JsonText([type |-> "object", chunks |-> None, embeddings |-> None,
                         lastUpdated |-> ""])),
      \* {"chunks": [..], "embeddings": 5}
      FileWith(JsonText([type |-> "object", chunks |-> Some(ForeignChunks),
                         embeddings |-> Some([type |-> "number"]),
                         lastUpdated |-> ""])) }

\* The requests the process handles, and a request that has not arrived.
RequestIds == 1..MaxRequests

NoRequest == [pc |-> "none"]

-----------------------------------------------------------------------------
(* Operations *)

Returned(op, arg, out) == [op |-> op, arg |-> arg, out |-> out, threw |-> "none"]

Threw(op, arg, error) == [op |-> op, arg |-> arg, out |-> <<>>, threw |-> error]

\* new RAGSystem()
Init ==
    /\ chunks = <<>>
    /\ embeddings = <<>>
    /\ openai = FALSE
    /\ file = NoFile
    /\ ret = Returned("new RAGSystem", <<>>, <<>>)
    /\ saved = None
    /\ requests = [r \in RequestIds |-> NoRequest]

\* A request handler constructs its own RAGSystem; the snapshot file stays.
NewRAGSystem ==
    /\ chunks' = <<>>
    /\ embeddings' = <<>>
    /\ openai' = FALSE
    /\ ret' = Returned("new RAGSystem", <<>>, <<>>)
    /\ UNCHANGED <<requests, file, saved>>

InitializeOpenAI ==
    /\ openai' = TRUE
    /\ ret' = Returned("initializeOpenAI", <<>>, <<>>)
    /\ UNCHANGED <<requests, chunks, embeddings, file, saved>>

ProcessNotionData(lists) ==
    \E notionData \in lists, now \in Clock :
        /\ chunks' = ProcessPages(notionData, now)
        /\ ret' = Returned("processNotionData", notionData, chunks')
        /\ saved' = None
        /\ UNCHANGED <<requests, embeddings, openai, file>>

\* generateEmbeddings calling the service a second time for a batch whose call
\* rejected, and going on from there.
GenerateEmbeddingsRetrying(models) ==
    \E model \in models, failAt \in 0..NumBatches(chunks) :
        LET first == GenerateLoop(chunks, embeddings, openai, 0, model, failAt, 0)
            run == IF first.threw = "api"
                   THEN GenerateLoop(first.chunks, first.embeddings, openai,
                                     (failAt - 1) * batchSize, model, 0, first.calls)
                   ELSE first
        IN /\ chunks' = run.chunks
           /\ embeddings' = run.embeddings
           /\ ret' = [op |-> "generateEmbeddings", arg |-> failAt, out |-> run.calls,
                      threw |-> run.threw]
           /\ saved' = None
           /\ UNCHANGED <<requests, openai, file>>

GenerateEmbeddings(models) ==
    \E model \in models, failAt \in 0..NumBatches(chunks) :
        LET run == GenerateLoop(chunks, embeddings, openai, 0, model, failAt, 0)
        IN /\ chunks' = run.chunks
           /\ embeddings' = run.embeddings
           /\ ret' = [op |-> "generateEmbeddings", arg |-> failAt, out |-> run.calls,
                      threw |-> run.threw]
           /\ saved' = None
           /\ UNCHANGED <<requests, openai, file>>

SearchSimilarChunks(queries, topKs, clock, models) ==
    \E query \in queries, topK \in topKs, now \in clock, model \in models,
       callFails \in BOOLEAN :
        /\ ret' = IF ~openai
                  THEN Threw("searchSimilarChunks", [query |-> query, topK |-> topK,
                                                      now |-> now], "config")
                  ELSE IF callFails
                  THEN Threw("searchSimilarChunks", [query |-> query, topK |-> topK,
                                                      now |-> now], "api")
                  ELSE LET queryEmbedding == EmbeddingOf(model, query)
                       IN Returned("searchSimilarChunks",
                                   [query |-> query, topK |-> topK, now |-> now,
                                    queryEmbedding |-> queryEmbedding],
                                   SearchResults(chunks, queryEmbedding, query, now, topK))
        /\ UNCHANGED <<requests, chunks, embeddings, openai, file, saved>>

\* saveToLocalStorage emptying the id -> vector map when the write throws.
SaveToLocalStorageForgetting ==
    \E now \in Clock, outcome \in WriteOutcomes :
        /\ file' = WriteFile(file, SnapshotOf(chunks, embeddings, now), outcome)
        /\ saved' = Some([chunks |-> chunks, embeddings |-> embeddings,
                          written |-> (outcome = "ok")])
        /\ ret' = Returned("saveToLocalStorage", outcome, <<>>)
        /\ embeddings' = IF outcome = "ok" THEN embeddings ELSE <<>>
        /\ UNCHANGED <<requests, chunks, openai>>

\* saveToLocalStorage in a Node.js process (typeof window === 'undefined')
SaveToLocalStorage ==
    \E now \in Clock, outcome \in WriteOutcomes :
        /\ file' = WriteFile(file, SnapshotOf(chunks, embeddings, now), outcome)
        /\ saved' = Some([chunks |-> chunks, embeddings |-> embeddings,
                          written |-> (outcome = "ok")])
        /\ ret' = Returned("saveToLocalStorage", outcome, <<>>)
        /\ UNCHANGED <<requests, chunks, embeddings, openai>>

LoadFromLocalStorage ==
    LET loaded == LoadFromFile(file, chunks, embeddings)
    IN /\ chunks' = loaded.chunks
       /\ embeddings' = loaded.embeddings
       /\ ret' = Returned("loadFromLocalStorage",
                          [fresh |-> (chunks = <<>> /\ embeddings = <<>>)],
                          loaded.result)
       /\ UNCHANGED <<requests, openai, file, saved>>

\* getStatus reporting ready as soon as one of the two counts is non-zero.
GetStatusEither ==
    /\ ret' = Returned("getStatus", <<>>,
                       [chunksCount |-> Len(chunks),
                        embeddingsCount |-> Len(embeddings),
                        isReady |-> (Len(chunks) > 0 \/ Len(embeddings) > 0)])
    /\ UNCHANGED <<requests, chunks, embeddings, openai, file, saved>>

GetStatus ==
    /\ ret' = Returned("getStatus", <<>>,
                       [chunksCount |-> Len(chunks),
                        embeddingsCount |-> Len(embeddings),
                        isReady |-> (Len(chunks) > 0 /\ Len(embeddings) > 0)])
    /\ UNCHANGED <<requests, chunks, embeddings, openai, file, saved>>

\* Something other than saveToLocalStorage replaces or removes the snapshot file.
ForeignWrite ==
    /\ file' \in ForeignFiles
    /\ file' # file
    /\ saved' = None
    /\ ret' = Returned("foreign write", <<>>, <<>>)
    /\ UNCHANGED <<requests, chunks, embeddings, openai>>

Next ==
    \/ NewRAGSystem
    \/ InitializeOpenAI
    \/ ProcessNotionData(PageLists)
    \/ GenerateEmbeddings(StoreModels)
    \/ SearchSimilarChunks(StoreQueries, StoreTopKs, Clock, StoreModels)
    \/ SaveToLocalStorage
    \/ LoadFromLocalStorage
    \/ GetStatus
    \/ ForeignWrite

Spec == Init /\ [][Next]_vars

-----------------------------------------------------------------------------
(* The chunker on its own: splitIntoChunks applied to texts of many lengths *)

\* A text of n pairwise distinct characters (CJK ideographs from U+4E01 on).
LongText(n) == [p \in 1..n |-> 19968 + p]

\* Every multiple of 100 and the lengths next to every multiple of 200, up to
\* MaxSteps window steps past one window.
TextLengths ==
    {n \in 0..(MaxSteps * WindowStep + chunkSize) : n % 100 = 0 \/ n % 200 \in {1, 199}}

\* The page initialize-rag builds for the whole database, and a page without an id.
DatabasePage ==
    [id |-> "notion-data",
     content |-> <<>>,
     properties |-> Some([title |-> <<68, 66>>, dates |-> <<>>]),
     last_edited_time |-> "2026-11-02T12:00:00.000Z",
     url |-> Some("https://notion.so/db"),
     metadataProperties |-> None]

ChunkPages == {DatabasePage, PageB}

SplitIntoChunksCall ==
    \E n \in TextLengths, page \in ChunkPages, now \in Clock :
        /\ ret' = Returned("splitIntoChunks",
                           [content |-> LongText(n), page |-> page],
                           SplitIntoChunks(LongText(n), TitleOf(page), page, now))
        /\ UNCHANGED <<requests, chunks, embeddings, openai, file, saved>>

NextChunk == SplitIntoChunksCall

SpecChunk == Init /\ [][NextChunk]_vars

-----------------------------------------------------------------------------
(* The search on its own: stores of dated one-chunk pages, every query family *)

\* A clock reading at noon, and one at a midnight exactly seven days after a
\* date of the pages below.
SearchClock == {BuildTime, NewDate(2026, 10, 9)}

DatedPage(i, text) ==
    [id |-> "notion-page-" \o ToString(i),
     content |-> text,
     properties |-> Some([title |-> <<80>>, dates |-> <<>>]),
     last_edited_time |-> "2025-06-01T00:00:00.000Z",
     url |-> None,
     metadataProperties |-> Some(<<>>)]

SearchPageSet ==
    { DatedPage(0, <<54924, 51032, 32, 50, 48, 50, 50, 45, 48, 53, 45, 48, 51>>),
      DatedPage(1, <<44228, 54925, 32, 50, 48, 50, 50, 45, 48, 53, 45, 48, 51, 32, 50, 48, 50, 53, 45, 48, 51, 45, 48, 49>>),
      DatedPage(2, <<44228, 54925, 32, 50, 48, 50, 53, 45380, 32, 51, 50900, 32, 49, 51068>>),
      DatedPage(3, <<51068, 51221, 32, 50, 48, 50, 54, 46, 32, 49, 49, 46, 32, 50, 46>>),
      DatedPage(4, <<47700, 47784>>),
      DatedPage(5, <<54665, 49324, 32, 50, 48, 51, 49, 45, 48, 49, 45, 48, 49>>) }

\* The databases searched: up to MaxPages of the pages, in the order of their ids.
SearchPageLists ==
    {q \in SeqsUpTo(SearchPageSet, MaxPages) :
        \A i \in 1..(Len(q) - 1) : \E a \in 0..5, b \in 0..5 :
            /\ a < b
            /\ q[i].id = "notion-page-" \o ToString(a)
            /\ q[i + 1].id = "notion-page-" \o ToString(b)}

UpcomingQuery == <<45796, 44032, 50724, 45716, 32, 51068, 51221>>

PastQuery == <<51648, 45212, 32, 54924, 51032>>

SearchQueries == {PlainQuery, RecentQuery, UpcomingQuery, PastQuery}

SearchTopKs == {0, 1, 5}

\* The chat route indexes the pages on the RAGSystem it has just constructed.
ProcessOnNewInstance(lists) ==
    /\ chunks = <<>>
    /\ embeddings = <<>>
    /\ ProcessNotionData(lists)

NextSearch ==
    \/ NewRAGSystem
    \/ InitializeOpenAI
    \/ ProcessOnNewInstance(SearchPageLists)
    \/ GenerateEmbeddings(Models)
    \/ SearchSimilarChunks(SearchQueries, SearchTopKs, SearchClock, Models)

SpecSearch == Init /\ [][NextSearch]_vars

-----------------------------------------------------------------------------
(* The indexer on its own: processNotionData applied to short databases *)

\* A page object with no field set: its extracted text is ''.
EmptyPage ==
    [id |-> "",
     content |-> <<>>,
     properties |-> None,
     last_edited_time |-> "",
     url |-> None,
     metadataProperties |-> None]

\* A page with an id whose pre-flattened content is n characters long.
TextPage(n) ==
    [id |-> "notion-page-" \o ToString(n),
     content |-> LongText(n),
     properties |-> Some([title |-> <<80>>, dates |-> <<>>]),
     last_edited_time |-> "2025-06-01T00:00:00.000Z",
     url |-> None,
     metadataProperties |-> None]

IndexPageSet ==
    {EmptyPage, PageB, PageC}
        \cup {TextPage(n) : n \in {1, chunkSize - 1, chunkSize, chunkSize + 1,
                                   2 * WindowStep, 2 * WindowStep + 100,
                                   3 * WindowStep + 100}}

IndexPageLists == SeqsUpTo(IndexPageSet, MaxPages)

NextIndex == ProcessNotionData(IndexPageLists)

SpecIndex == Init /\ [][NextIndex]_vars

-----------------------------------------------------------------------------
(* The embedding client on large databases: more chunks than one batch *)

\* A page of one short chunk.
CorpusPage(i) ==
    [id |-> "notion-page-" \o ToString(i - 1),
     content |-> <<120, 48 + (i % 10)>>,
     properties |-> Some([title |-> <<80>>, dates |-> <<>>]),
     last_edited_time |-> "2025-06-01T00:00:00.000Z",
     url |-> None,
     metadataProperties |-> None]

Corpus(n) == [i \in 1..n |-> CorpusPage(i)]

\* Databases of no chunk, of one chunk, and of just under, exactly and just over
\* one batch and two batches.
CorpusSizes ==
    {0, 1, batchSize - 1, batchSize, 2 * batchSize - 1, 2 * batchSize}
        \cup {b * batchSize + e : b \in {1, 2}, e \in 1..ExtraChunks}

CorpusLists == {Corpus(n) : n \in CorpusSizes}

NextBatch ==
    \/ NewRAGSystem
    \/ InitializeOpenAI
    \/ ProcessOnNewInstance(CorpusLists)
    \/ GenerateEmbeddings(StoreModels)
    \/ GetStatus

SpecBatch == Init /\ [][NextBatch]_vars

-----------------------------------------------------------------------------
(* RAGSystems indexed again and again, without a snapshot file *)

NextReindex ==
    \/ NewRAGSystem
    \/ InitializeOpenAI
    \/ ProcessNotionData(PageLists)
    \/ GenerateEmbeddings(Models)
    \/ SearchSimilarChunks(StoreQueries, StoreTopKs, Clock, Models)
    \/ GetStatus

SpecReindex == Init /\ [][NextReindex]_vars

-----------------------------------------------------------------------------
(* The date extraction on its own: extractDatesFromChunk applied to chunks    *)
(* with one date token in the text and one property                          *)

\* A chunk whose text is a label and the token of year, month and day written
\* as 'YYYY-MM-DD' ("iso"), 'YYYY. M. D.' ("dots") or 'YYYY년 M월 D일'
\* ("long"), and whose metadata holds the property `key` with the value
\* 'YYYY-MM-DD' of the day `value`.
DateChunk(format, token, key, value) ==
    LET digit(n) == 48 + n
        year(y) == <<digit(y \div 1000), digit((y \div 100) % 10),
                     digit((y \div 10) % 10), digit(y % 10)>>
        two(n) == <<digit(n \div 10), digit(n % 10)>>
        short(n) == IF n < 10 THEN <<digit(n)>> ELSE two(n)
        iso(d) == year(d.year) \o <<45>> \o two(d.month) \o <<45>> \o two(d.day)
        text == CASE format = "iso" -> iso(token)
                  [] format = "dots" ->
                        year(token.year) \o <<46, 32>> \o short(token.month)
                            \o <<46, 32>> \o short(token.day) \o <<46>>
                  [] format = "long" ->
                        year(token.year) \o <<45380, 32>> \o short(token.month)
                            \o <<50900, 32>> \o short(token.day) \o <<51068>>
    IN [content |-> <<51068, 51221, 58, 32>> \o text \o <<10>>,
        metadata |-> [properties |-> << <<key, iso(value)>> >>]]

\* The properties 'Date', 'Start Date', '날짜', and 'Name', which names no
\* date, each with the day its value denotes.
DateProperties ==
    { [key |-> <<68, 97, 116, 101>>,
       value |-> [year |-> 2019, month |-> 12, day |-> 31]],
      [key |-> <<83, 116, 97, 114, 116, 32, 68, 97, 116, 101>>,
       value |-> [year |-> 2031, month |-> 1, day |-> 1]],
      [key |-> <<45216, 51676>>,
       value |-> [year |-> 2030, month |-> 12, day |-> 31]],
      [key |-> <<78, 97, 109, 101>>,
       value |-> [year |-> 2030, month |-> 12, day |-> 31]] }

ExtractDatesCall ==
    \E format \in {"iso", "dots", "long"},
       y \in {2019, 2020, 2030, 2031}, m \in {0, 2, 12, 13}, d \in {0, 1, 31, 32},
       property \in DateProperties :
        LET token == [year |-> y, month |-> m, day |-> d]
        IN /\ ret' = Returned("extractDatesFromChunk",
                              [format |-> format, token |-> token,
                               key |-> property.key, value |-> property.value],
                              ExtractDatesFromChunk(
                                  DateChunk(format, token, property.key, property.value)))
           /\ UNCHANGED <<requests, chunks, embeddings, openai, file, saved>>

SpecDates == Init /\ [][ExtractDatesCall]_vars

-----------------------------------------------------------------------------
(* The date windows: searches at times that put 2026-11-02 on the edges of   *)
(* the windows, with queries of one and of several temporal families         *)

\* new Date() at midnight of 2026-11-02, seven days before and after it, and
\* one hour further away than these.
WindowClock ==
    LET midnight == NewDate(2026, 10, 2)
    IN {midnight + h : h \in {-SevenDays - 1, -SevenDays, 0, SevenDays, SevenDays + 1}}

\* The databases that hold the page dated 2026-11-02.
WindowPageLists ==
    {q \in SearchPageLists : \E i \in DOMAIN q : q[i].id = "notion-page-3"}

\* Queries with keywords of two families: past and recent ("지난 최근"), past
\* and upcoming ("지난 예정"), upcoming and recent ("곧 오늘").
WindowQueries ==
    { RecentQuery, UpcomingQuery, PastQuery,
      <<51648, 45212, 32, 52572, 44540>>,
      <<51648, 45212, 32, 50696, 51221>>,
      <<44263, 32, 50724, 45720>> }

NextWindow ==
    \/ NewRAGSystem
    \/ InitializeOpenAI
    \/ ProcessOnNewInstance(WindowPageLists)
    \/ GenerateEmbeddings(StoreModels)
    \/ SearchSimilarChunks(WindowQueries, StoreTopKs, WindowClock, StoreModels)

SpecWindow == Init /\ [][NextWindow]_vars

-----------------------------------------------------------------------------
(* POST /api/initialize-rag: the settings page's DB update, one handler run *)
(* per request, all runs sharing the snapshot file                           *)

\* What extractSimpleText makes of the Notion database when a request queries
\* it: nothing for a database without rows, a short text, a text of two chunks.
Databases == {<<>>, <<51228, 47785, 58, 32, 65, 10>>, LongText(chunkSize + 1)}

\* The one page the handler builds from the text of the whole database.
NotionPages(notionData) == <<[DatabasePage EXCEPT !.content = notionData]>>

\* getStatus on a RAGSystem holding chs and emb.
StatusOf(chs, emb) ==
    [chunksCount |-> Len(chs),
     embeddingsCount |-> Len(emb),
     isReady |-> (Len(chs) > 0 /\ Len(emb) > 0)]

\* NextResponse.json.  A request record holds the handler's place (pc), the
\* content of the database while it runs, whether the snapshot file existed
\* when it arrived, its RAGSystem (chunks, embeddings), the number of
\* embedding calls it has issued, whether it has called writeFileSync, and
\* its response.
Respond(request, code, body) ==
    [request EXCEPT !.pc = "done", !.response = [code |-> code] @@ body]

\* The handler up to its first use of the file: it reads the body, answers 400
\* when a key is missing, and constructs its RAGSystem with an OpenAI client.
\* database is the content of the Notion database while the request runs.
Arrive(r) ==
    /\ requests[r].pc = "none"
    /\ \E database \in Databases, hasKeys \in BOOLEAN :
          LET request == [pc |-> "load", database |-> database,
                          snapshotAtArrival |-> file.exists,
                          hasExistingData |-> FALSE, chunks |-> <<>>,
                          embeddings |-> <<>>, calls |-> 0, wrote |-> FALSE,
                          response |-> <<>>]
          IN requests' = [requests EXCEPT ![r] =
                 IF hasKeys THEN request
                 ELSE Respond(request, 400, [success |-> FALSE])]
    /\ UNCHANGED <<chunks, embeddings, openai, file, ret, saved>>

\* The handler going on to rebuild the index whatever loadFromLocalStorage
\* returned.
LoadExistingIgnored(r) ==
    /\ requests[r].pc = "load"
    /\ LET loaded == LoadFromFile(file, requests[r].chunks, requests[r].embeddings)
       IN requests' = [requests EXCEPT ![r] =
              [@ EXCEPT !.hasExistingData = loaded.result,
                        !.chunks = loaded.chunks,
                        !.embeddings = loaded.embeddings,
                        !.pc = "query"]]
    /\ UNCHANGED <<chunks, embeddings, openai, file, ret, saved>>

\* hasExistingData = await ragSystem.loadFromLocalStorage(), and the answer
\* with the loaded status when it is true.
LoadExisting(r) ==
    /\ requests[r].pc = "load"
    /\ LET loaded == LoadFromFile(file, requests[r].chunks, requests[r].embeddings)
           request == [requests[r] EXCEPT !.hasExistingData = loaded.result,
                                          !.chunks = loaded.chunks,
                                          !.embeddings = loaded.embeddings]
       IN requests' = [requests EXCEPT ![r] =
              IF loaded.result
              THEN Respond(request, 200,
                           [success |-> TRUE,
                            status |-> StatusOf(loaded.chunks, loaded.embeddings)])
              ELSE [request EXCEPT !.pc = "query"]]
    /\ UNCHANGED <<chunks, embeddings, openai, file, ret, saved>>

\* The database query, the text extraction and processNotionData.  The query
\* may reject, and a database without text is an error; both are answered 500.
QueryNotion(r) ==
    /\ requests[r].pc = "query"
    /\ \E queryFails \in BOOLEAN, now \in Clock :
          LET notionData == requests[r].database
          IN requests' = [requests EXCEPT ![r] =
                 IF queryFails \/ notionData = <<>>
                 THEN Respond(@, 500, [success |-> FALSE])
                 ELSE [@ EXCEPT !.pc = "embed",
                                !.chunks = ProcessPages(NotionPages(notionData), now)]]
    /\ UNCHANGED <<chunks, embeddings, openai, file, ret, saved>>

\* await ragSystem.generateEmbeddings(): a rejected batch is answered 500.
Embed(r) ==
    /\ requests[r].pc = "embed"
    /\ \E model \in StoreModels, failAt \in 0..NumBatches(requests[r].chunks) :
          LET run == GenerateLoop(requests[r].chunks, requests[r].embeddings, TRUE,
                                  0, model, failAt, 0)
              request == [requests[r] EXCEPT !.chunks = run.chunks,
                                             !.embeddings = run.embeddings,
                                             !.calls = run.calls]
          IN requests' = [requests EXCEPT ![r] =
                 IF run.threw # "none"
                 THEN Respond(request, 500, [success |-> FALSE])
                 ELSE [request EXCEPT !.pc = "save"]]
    /\ UNCHANGED <<chunks, embeddings, openai, file, ret, saved>>

\* await ragSystem.saveToLocalStorage(), getStatus and the answer.
Persist(r) ==
    /\ requests[r].pc = "save"
    /\ \E now \in Clock, outcome \in WriteOutcomes :
          /\ file' = WriteFile(file,
                               SnapshotOf(requests[r].chunks, requests[r].embeddings, now),
                               outcome)
          /\ requests' = [requests EXCEPT ![r] =
                 Respond([@ EXCEPT !.wrote = TRUE], 200,
                         [success |-> TRUE,
                          status |-> StatusOf(requests[r].chunks,
                                              requests[r].embeddings)])]
    /\ saved' = None
    /\ UNCHANGED <<chunks, embeddings, openai, ret>>

NextUpdate ==
    \E r \in RequestIds :
        \/ Arrive(r)
        \/ LoadExisting(r)
        \/ QueryNotion(r)
        \/ Embed(r)
        \/ Persist(r)

SpecUpdate == Init /\ [][NextUpdate]_vars

-----------------------------------------------------------------------------
(* POST /api/chat: the index is built and searched for the one request, and  *)
(* the context falls back to the client's notionData                         *)

\* String.prototype.trim
Trim(s) ==
    LET kept == {i \in DOMAIN s : s[i] \notin WhiteSpace}
    IN IF kept = {} THEN <<>>
       ELSE SubSeq(s, CHOOSE i \in kept : \A j \in kept : i <= j,
                      CHOOSE i \in kept : \A j \in kept : j <= i)

\* formatSearchResults: '[n] title', the content, and the score as a
\* percentage with one decimal ((score * 100).toFixed(1)); a score is counted
\* in units of 1/(10 * SimilarityScale), which is 4 tenths of a percent.
FormatSearchResults(results) ==
    LET decimal(n) ==
            LET ds == <<n \div 1000, (n \div 100) % 10, (n \div 10) % 10, n % 10>>
                lead == IF \E i \in 1..3 : ds[i] # 0
                        THEN CHOOSE i \in 1..3 : ds[i] # 0 /\ \A j \in 1..(i - 1) : ds[j] = 0
                        ELSE 4
            IN [i \in 1..(5 - lead) |-> 48 + ds[lead + i - 1]]
        toFixed1(tenths) ==
            LET abs == IF tenths < 0 THEN -tenths ELSE tenths
            IN (IF tenths < 0 THEN <<45>> ELSE <<>>)
                \o decimal(abs \div 10) \o <<46, 48 + (abs % 10)>>
        entry(index) ==
            <<91>> \o decimal(index) \o <<93, 32>>
                \o results[index].chunk.metadata.title \o <<10>>
                \o results[index].chunk.content \o <<10>>
                \o <<40, 50976, 49324, 46020, 58, 32>>
                \o toFixed1((results[index].score * 1000) \div (10 * SimilarityScale))
                \o <<37, 41, 10, 10>>
    IN IF Len(results) = 0
       THEN \* '관련된 정보를 찾을 수 없습니다.'
            <<44288, 47144, 46108, 32, 51221, 48372, 47484, 32, 52286, 51012, 32,
              49688, 32, 50630, 49845, 45768, 45796, 46>>
       ELSE \* '다음은 관련된 정보들입니다:\n\n'
            <<45796, 51020, 51008, 32, 44288, 47144, 46108, 32, 51221, 48372, 46308,
              51077, 45768, 45796, 58, 10, 10>>
                \o Flatten([index \in DOMAIN results |-> entry(index)], 1, Len(results))

\* The context when the index was not used up to the search: the client's
\* notionData, or '사용 가능한 데이터가 없습니다.' in its stead.
FallbackContextRaw(notionData) == notionData

FallbackContext(notionData) ==
    IF notionData = <<>> \/ Trim(notionData) = <<>>
    THEN <<49324, 50857, 32, 44032, 45733, 54620, 32, 45936, 51060, 53552, 44032, 32,
           50630, 49845, 45768, 45796, 46>>
    ELSE notionData

\* The handler for a request with a message, an authorization header and an
\* OpenAI key.  `attempt` is `useRAG && settings.notionApiKey &&
\* settings.notionDatabaseId`; `failure` names the step of the attempt that
\* throws: the database query, the embedding of the chunks, the embedding of
\* the query, or none; a database without rows throws as well.  chunks,
\* embeddings and openai are those of the RAGSystem the handler constructed,
\* as the request leaves them.
ChatPost ==
    \E message \in {PlainQuery, RecentQuery},
       notionData \in {<<>>, <<32, 10>>, <<78, 111, 116, 101>>},
       attempt \in BOOLEAN,
       database \in {q \in SearchPageLists :
                         /\ Len(q) <= 1
                         /\ \A i \in DOMAIN q : q[i].id \in {"notion-page-3", "notion-page-4"}},
       failure \in {"none", "query", "embed", "search"},
       completionFails \in BOOLEAN, now \in Clock, model \in StoreModels :
        /\ attempt \/ (failure = "none" /\ database = <<>>)
        /\ \E run \in {GenerateLoop(IF attempt /\ failure # "query"
                                     THEN ProcessPages(database, now) ELSE <<>>,
                                     <<>>, TRUE, 0, model,
                                     IF failure = "embed" THEN 1 ELSE 0, 0)} :
           LET ragSuccess ==
                   /\ attempt /\ failure \notin {"query", "search"}
                   /\ database # <<>>
                   /\ run.threw = "none"
           IN \E contextData \in
                  {IF ragSuccess
                   THEN FormatSearchResults(
                            SearchResults(run.chunks, EmbeddingOf(model, message),
                                          message, now, 5))
                   ELSE FallbackContext(notionData)} :
              /\ chunks' = run.chunks
              /\ embeddings' = run.embeddings
              /\ openai' = attempt
              /\ ret' = Returned("POST /api/chat",
                                 [message |-> message, notionData |-> notionData,
                                  attempt |-> attempt, database |-> database,
                                  failure |-> failure],
                                 IF completionFails
                                 THEN [code |-> 500, completion |-> contextData]
                                 ELSE [code |-> 200, completion |-> contextData,
                                       ragUsed |-> ragSuccess,
                                       contextLength |-> Len(contextData)])
              /\ UNCHANGED <<file, saved, requests>>

SpecChat == Init /\ [][ChatPost]_vars

-----------------------------------------------------------------------------
(* Properties of the chunker (checked under SpecChunk) *)

SplitReturned == ret.op = "splitIntoChunks"

\* The text the last splitIntoChunks call was given, and the chunks it returned.
SplitText == ret.arg.content

SplitOut == ret.out

\* C6: a text longer than chunk_size yields exactly ceil(L / (chunk_size - overlap))
\* chunks, with chunkIndex 0, 1, .., n-1 in emission order and totalChunks = n on
\* every one of them.
C6_ChunkCountAndIndices ==
    (SplitReturned /\ Len(SplitText) > chunkSize) =>
        LET n == Ceil(Len(SplitText), chunkSize - overlap)
        IN /\ Len(SplitOut) = n
           /\ \A i \in DOMAIN SplitOut :
                /\ SplitOut[i].metadata.chunkIndex = i - 1
                /\ SplitOut[i].metadata.totalChunks = n

\* A 1700-character text was split into its three chunks.
C6_Witness ==
    /\ SplitReturned
    /\ Len(SplitText) = 1700
    /\ Len(SplitOut) = 3
    /\ SplitOut[3].metadata.totalChunks = 3

\* C7: chunk i of a text longer than chunk_size holds the characters
\* [i*(chunk_size-overlap), min(i*(chunk_size-overlap)+chunk_size, L)), and two
\* consecutive chunks neither of which is the last share exactly `overlap`
\* characters (the characters of the text are pairwise distinct).
C7_ChunkWindows ==
    (SplitReturned /\ Len(SplitText) > chunkSize) =>
        /\ \A i \in DOMAIN SplitOut :
              SplitOut[i].content =
                  SubSeq(SplitText, (i - 1) * (chunkSize - overlap) + 1,
                         Min((i - 1) * (chunkSize - overlap) + chunkSize, Len(SplitText)))
        /\ \A i \in DOMAIN SplitOut :
              (i + 1 < Len(SplitOut)) =>
                  /\ Cardinality(Range(SplitOut[i].content)
                                    \cap Range(SplitOut[i + 1].content)) = overlap
                  /\ SubSeq(SplitOut[i].content, chunkSize - overlap + 1, chunkSize)
                        = SubSeq(SplitOut[i + 1].content, 1, overlap)

\* A 2500-character text was split into four chunks: chunks 0, 1 and 2 are full
\* windows 800 characters apart, chunk 3 is the remainder [2400,2500).
C7_Witness ==
    /\ SplitReturned
    /\ Len(SplitText) = 2500
    /\ Len(SplitOut) = 4
    /\ SplitOut[2].content = SubSeq(SplitText, 801, 1800)
    /\ SplitOut[4].content = SubSeq(SplitText, 2401, 2500)

\* C8: a text of length <= chunk_size yields exactly one chunk, chunkIndex 0,
\* totalChunks 1, whose content is the whole text.
C8_SingleChunk ==
    (SplitReturned /\ Len(SplitText) <= chunkSize) =>
        /\ Len(SplitOut) = 1
        /\ SplitOut[1].metadata.chunkIndex = 0
        /\ SplitOut[1].metadata.totalChunks = 1
        /\ SplitOut[1].content = SplitText

\* A text of exactly chunk_size characters came back as one chunk.
C8_Witness ==
    /\ SplitReturned
    /\ Len(SplitText) = chunkSize
    /\ Len(SplitOut) = 1
    /\ Len(SplitOut[1].content) = chunkSize

\* C10: every chunk's id is its metadata.pageId, '-', its metadata.chunkIndex,
\* also for a page without an id.
C10_IdFromPageId ==
    SplitReturned =>
        \A i \in DOMAIN SplitOut :
            SplitOut[i].id = SplitOut[i].metadata.pageId \o "-"
                                \o ToString(SplitOut[i].metadata.chunkIndex)

-----------------------------------------------------------------------------
(* Properties of the store (checked under Spec) *)

\* C1: the two views of the embeddings agree: the map has an entry for a
\* chunk's id exactly if the chunk carries an embedding, and it is that vector.
C1_ViewsAgree ==
    \A i \in DOMAIN chunks :
        /\ MapHas(embeddings, chunks[i].id) <=> (chunks[i].embedding # None)
        /\ MapHas(embeddings, chunks[i].id) =>
              MapGet(embeddings, chunks[i].id) = TheValue(chunks[i].embedding)

SearchReturned == ret.op = "searchSimilarChunks" /\ ret.threw = "none"

\* C2: no result of searchSimilarChunks holds a chunk without an embedding.
C2_ResultsAreEmbedded ==
    SearchReturned =>
        \A k \in DOMAIN ret.out : ret.out[k].chunk.embedding # None

\* A search over a store holding an embedded and an unembedded chunk (loaded
\* from the snapshot of a partly embedded store) returned a result.
C2_Witness ==
    /\ SearchReturned
    /\ \E i \in DOMAIN chunks : chunks[i].embedding = None
    /\ \E i \in DOMAIN chunks : chunks[i].embedding # None
    /\ Len(ret.out) > 0

LoadStep == ret'.op = "loadFromLocalStorage"

\* The chunk sequence and the map a snapshot written by saveToLocalStorage holds.
SnapshotIsWellFormed(f) ==
    /\ f.exists
    /\ f.text.valid
    /\ f.text.value.type = "object"
    /\ f.text.value.chunks # None
    /\ f.text.value.embeddings # None
    /\ TheValue(f.text.value.embeddings).type = "array"

\* C4: loadFromLocalStorage either replaces both the chunk sequence and the map
\* and returns true, or returns false and leaves both as they were.
C4_LoadAllOrNothing ==
    [][LoadStep =>
        \/ /\ ret'.out = TRUE
           /\ SnapshotIsWellFormed(file) =>
                /\ Len(chunks') = Len(TheValue(file.text.value.chunks))
                /\ \A i \in DOMAIN chunks' :
                      chunks'[i].id = TheValue(file.text.value.chunks)[i].id
                /\ MapKeys(embeddings')
                      = {e[1] : e \in Range(TheValue(file.text.value.embeddings).items)}
        \/ /\ ret'.out = FALSE
           /\ chunks' = chunks
           /\ embeddings' = embeddings]_vars

C9_DistinctIds ==
    (ret.op = "processNotionData") =>
        \A i, j \in DOMAIN chunks : (i # j) => chunks[i].id # chunks[j].id

-----------------------------------------------------------------------------
(* Properties of the date-aware scoring (checked under SpecSearch) *)

RecentSearchReturned == SearchReturned /\ IsRecentQuery(ret.arg.query)

\* An embedded chunk with at least one extracted date, none of them within
\* seven days of the time of the search.
DatedOutsideWindow(c) ==
    /\ c.embedding # None
    /\ ExtractDatesFromChunk(c) # <<>>
    /\ \A d \in Range(ExtractDatesFromChunk(c)) :
            d < ret.arg.now - 7 * HoursPerDay \/ d > ret.arg.now + 7 * HoursPerDay

Dropped(c) == \A k \in DOMAIN ret.out : ret.out[k].chunk # c

\* c is among the scored chunks with `tenths`/10 of its similarity: it is in the
\* results with that score, unless topK results of at least that score fill them.
RetainedWith(c, tenths) ==
    LET score == CosineSimilarity(ret.arg.queryEmbedding, TheValue(c.embedding)) * tenths
    IN \/ \E k \in DOMAIN ret.out : ret.out[k].chunk = c /\ ret.out[k].score = score
       \/ /\ Len(ret.out) = ret.arg.topK
          /\ \A k \in DOMAIN ret.out : ret.out[k].score >= score

\* C3 as stated: on a recent query such a chunk is dropped if every extracted
\* date has a year before 2024, and is otherwise retained with 0.3 of its
\* similarity.
C3_DroppedIfEveryYearOld ==
    RecentSearchReturned =>
        \A c \in Range(chunks) :
            DatedOutsideWindow(c) =>
                IF \A d \in Range(ExtractDatesFromChunk(c)) : GetFullYear(d) < 2024
                THEN Dropped(c)
                ELSE RetainedWith(c, 3)

\* C3 amended: on a recent query such a chunk is dropped if at least one
\* extracted date has a year before 2024, and is retained with 0.3 of its
\* similarity if every extracted date has a year of 2024 or later.
C3_DroppedIfSomeYearOld ==
    RecentSearchReturned =>
        \A c \in Range(chunks) :
            DatedOutsideWindow(c) =>
                IF \E d \in Range(ExtractDatesFromChunk(c)) : GetFullYear(d) < 2024
                THEN Dropped(c)
                ELSE RetainedWith(c, 3)

\* A recent query over a chunk dated 2022 and 2025, which was dropped, and a
\* chunk dated 2025 only, which is in the results with 0.3 of its similarity.
C3_Witness ==
    /\ RecentSearchReturned
    /\ \E c \in Range(chunks) :
          /\ DatedOutsideWindow(c)
          /\ \E d \in Range(ExtractDatesFromChunk(c)) : GetFullYear(d) < 2024
          /\ \E d \in Range(ExtractDatesFromChunk(c)) : GetFullYear(d) >= 2024
          /\ Dropped(c)
    /\ \E c \in Range(chunks) :
          /\ DatedOutsideWindow(c)
          /\ \A d \in Range(ExtractDatesFromChunk(c)) : GetFullYear(d) >= 2024
          /\ \E k \in DOMAIN ret.out :
                /\ ret.out[k].chunk = c
                /\ ret.out[k].score # 0
                /\ ret.out[k].score
                      = CosineSimilarity(ret.arg.queryEmbedding, TheValue(c.embedding)) * 3

-----------------------------------------------------------------------------
(* Properties of the indexer (checked under SpecIndex) *)

ProcessReturned == ret.op = "processNotionData"

\* C11: after processNotionData every chunk of the store has a non-empty
\* content of at most chunk_size characters (so a page whose extracted text is
\* empty contributes no chunk).
C11_NonEmptyBoundedContent ==
    ProcessReturned =>
        \A i \in DOMAIN chunks :
            Len(chunks[i].content) > 0 /\ Len(chunks[i].content) <= chunkSize

-----------------------------------------------------------------------------
(* Properties of the scoring of plain and date-blind cases (checked under SpecSearch) *)

IsTemporalQuery(query) ==
    IsRecentQuery(query) \/ IsUpcomingQuery(query) \/ IsPastQuery(query)

EmbeddedChunks == {i \in DOMAIN chunks : chunks[i].embedding # None}

\* C12: for a query of no temporal family every result's score is the cosine
\* similarity of the query vector and the chunk's vector (multiplier 1), and no
\* embedded chunk is dropped: the results are min(topK, number of embedded
\* chunks) many, and an embedded chunk is left out only by the truncation.
C12_PlainQueryRawSimilarity ==
    (SearchReturned /\ ~IsTemporalQuery(ret.arg.query)) =>
        /\ \A k \in DOMAIN ret.out :
              ret.out[k].score
                  = CosineSimilarity(ret.arg.queryEmbedding,
                                     TheValue(ret.out[k].chunk.embedding)) * 10
        /\ Len(ret.out) = Min(ret.arg.topK, Cardinality(EmbeddedChunks))
        /\ \A i \in EmbeddedChunks : RetainedWith(chunks[i], 10)

\* A plain query over two embedded chunks, one of them dated 2022 only, returned
\* both, with different similarities.
C12_Witness ==
    /\ SearchReturned
    /\ ~IsTemporalQuery(ret.arg.query)
    /\ Len(ret.out) = 2
    /\ ret.out[1].score > ret.out[2].score
    /\ ret.out[2].score # 0
    /\ \E k \in DOMAIN ret.out :
          /\ ExtractDatesFromChunk(ret.out[k].chunk) # <<>>
          /\ \A d \in Range(ExtractDatesFromChunk(ret.out[k].chunk)) : GetFullYear(d) < 2024

\* C13: on a query of a temporal family an embedded chunk from which no date
\* is extracted is retained with 0.5 of its similarity.
C13_DateBlindHalved ==
    (SearchReturned /\ IsTemporalQuery(ret.arg.query)) =>
        \A i \in EmbeddedChunks :
            (ExtractDatesFromChunk(chunks[i]) = <<>>) => RetainedWith(chunks[i], 5)

\* An upcoming query returned the chunk whose only date token is 2031-01-01,
\* with 0.5 of its similarity.
C13_Witness ==
    /\ SearchReturned
    /\ IsUpcomingQuery(ret.arg.query)
    /\ \E k \in DOMAIN ret.out :
          /\ Includes(ret.out[k].chunk.content,
                      <<50, 48, 51, 49, 45, 48, 49, 45, 48, 49>>)
          /\ ExtractDatesFromChunk(ret.out[k].chunk) = <<>>
          /\ ret.out[k].score # 0
          /\ ret.out[k].score
                = CosineSimilarity(ret.arg.queryEmbedding,
                                   TheValue(ret.out[k].chunk.embedding)) * 5

\* The scored, non-dropped chunks of the last search, as the loop pushed them.
Scored ==
    Similarities(chunks, ret.arg.queryEmbedding, ret.arg.query, ret.arg.now)

\* C14: searchSimilarChunks returns min(topK, n) of the n scored chunks, in
\* non-increasing order of score, and no scored chunk left out has a score
\* above that of a returned one.
C14_TopKSortedDescending ==
    SearchReturned =>
        /\ Len(ret.out) = Min(ret.arg.topK, Len(Scored))
        /\ Range(ret.out) \subseteq Range(Scored)
        /\ Cardinality(Range(ret.out)) = Len(ret.out)
        /\ \A k \in 1..(Len(ret.out) - 1) : ret.out[k].score >= ret.out[k + 1].score
        /\ \A r \in Range(Scored) \ Range(ret.out) :
              \A k \in DOMAIN ret.out : r.score <= ret.out[k].score

\* A search with topK = 1 over two scored chunks of different scores returned
\* the one with the higher score, which the loop had pushed second.
C14_Witness ==
    /\ SearchReturned
    /\ ret.arg.topK = 1
    /\ Len(Scored) = 2
    /\ Scored[1].score < Scored[2].score
    /\ ret.out = <<Scored[2]>>

-----------------------------------------------------------------------------
(* Properties of the embedding run (checked under SpecBatch) *)

\* A step of generateEmbeddings; ret'.arg is the number of the batch whose
\* service call rejects (0: none), ret'.out the number of service calls issued.
GenerateStep == ret'.op = "generateEmbeddings"

\* C15: when the call for batch k fails, generateEmbeddings rejects with the
\* call's error after exactly k calls (none for a later batch, none repeated),
\* and the chunks of the later batches are as they were.
C15_FailedBatchStopsRun ==
    [][(GenerateStep /\ openai /\ ret'.arg \in 1..NumBatches(chunks)) =>
        /\ ret'.threw = "api"
        /\ ret'.out = ret'.arg
        /\ \A i \in DOMAIN chunks :
              (i > ret'.arg * batchSize) => chunks'[i] = chunks[i]]_vars

\* A run over three batches failed at the second: two calls were issued, the
\* first batch is embedded and the third was never sent.
C15_Witness ==
    /\ ret.op = "generateEmbeddings"
    /\ ret.threw = "api"
    /\ ret.arg = 2
    /\ ret.out = 2
    /\ Len(chunks) > 2 * batchSize
    /\ chunks[1].embedding # None
    /\ chunks[2 * batchSize + 1].embedding = None

\* The last chunk that has the id of chunk k: the one whose vector the map keeps.
LastWithId(chs, k) ==
    CHOOSE m \in DOMAIN chs :
        /\ chs[m].id = chs[k].id
        /\ \A x \in DOMAIN chs : chs[x].id = chs[k].id => x <= m

\* C24: a generateEmbeddings run in which no call fails issues one call for
\* each group of batchSize consecutive chunks, ceil(n / batchSize) in all, and
\* leaves every chunk with the vector the service gives for that chunk's own
\* content, in the chunk and in the map under the chunk's id.
C24_BatchesInOrder ==
    [][(GenerateStep /\ openai /\ ret'.arg = 0) =>
        /\ ret'.threw = "none"
        /\ ret'.out = Ceil(Len(chunks), batchSize)
        /\ Len(chunks') = Len(chunks)
        /\ \E model \in Models :
              \A k \in DOMAIN chunks :
                  /\ chunks'[k].id = chunks[k].id
                  /\ chunks'[k].content = chunks[k].content
                  /\ chunks'[k].embedding = Some(EmbeddingOf(model, chunks[k].content))
                  /\ MapGet(embeddings', chunks[k].id)
                        = EmbeddingOf(model, chunks[LastWithId(chunks, k)].content)]_vars

\* A run over two whole batches and one more chunk returned after three calls,
\* the chunks on both sides of a batch border holding different vectors.
C24_Witness ==
    /\ ret.op = "generateEmbeddings"
    /\ ret.threw = "none"
    /\ ret.out = 3
    /\ Len(chunks) = 2 * batchSize + 1
    /\ chunks[2 * batchSize + 1].embedding # None
    /\ chunks[batchSize].embedding # chunks[batchSize + 1].embedding

\* The indices of the chunks of batch b.
BatchMembers(b) ==
    {i \in DOMAIN chunks : i > (b - 1) * batchSize /\ i <= b * batchSize}

\* C16: after generateEmbeddings has returned or thrown, every batch has either
\* all of its chunks embedded, in the chunk field and in the map, or none of
\* them, in neither.
C16_BatchAtomic ==
    (ret.op = "generateEmbeddings") =>
        \A b \in 1..NumBatches(chunks) :
            \/ \A i \in BatchMembers(b) :
                  chunks[i].embedding # None /\ MapHas(embeddings, chunks[i].id)
            \/ \A i \in BatchMembers(b) :
                  chunks[i].embedding = None /\ ~MapHas(embeddings, chunks[i].id)

\* C29: of a text longer than chunkSize every chunk except the last is
\* exactly chunkSize long.
C29_OnlyLastShorter ==
    (SplitReturned /\ Len(SplitText) > chunkSize) =>
        \A i \in DOMAIN SplitOut :
            i < Len(SplitOut) => Len(SplitOut[i].content) = chunkSize

\* C29 amended: every chunk except the last two is exactly chunkSize long; the
\* last is at most chunkSize - overlap long, and the one before it is shorter
\* than chunkSize exactly when the last is shorter than overlap.
C29_LastTwoShorter ==
    (SplitReturned /\ Len(SplitText) > chunkSize) =>
        LET n == Len(SplitOut) IN
        /\ n >= 2
        /\ \A i \in DOMAIN SplitOut :
              i < n - 1 => Len(SplitOut[i].content) = chunkSize
        /\ Len(SplitOut[n].content) \in 1..(chunkSize - overlap)
        /\ Len(SplitOut[n - 1].content) \in (chunkSize - overlap + 1)..chunkSize
        /\ Len(SplitOut[n - 1].content) < chunkSize
              <=> Len(SplitOut[n].content) < overlap

\* A 1700-character text was split into chunks of 1000, 900 and 100 characters.
C29_Witness ==
    /\ SplitReturned
    /\ Len(SplitText) = 1700
    /\ Len(SplitOut) = 3
    /\ Len(SplitOut[1].content) = 1000
    /\ Len(SplitOut[2].content) = 900
    /\ Len(SplitOut[3].content) = 100

-----------------------------------------------------------------------------
(* Properties of the operations of one RAGSystem and its snapshot (checked under Spec) *)

SearchStep == ret'.op = "searchSimilarChunks"

\* C17: generateEmbeddings and searchSimilarChunks on a RAGSystem without an
\* OpenAI client fail with the configuration error, whatever the store holds,
\* and change nothing in the store.
C17_NoClientConfigError ==
    [][((GenerateStep \/ SearchStep) /\ ~openai) =>
        /\ ret'.threw = "config"
        /\ chunks' = chunks
        /\ embeddings' = embeddings]_vars

LoadReturned == ret.op = "loadFromLocalStorage"

\* C18: loadFromLocalStorage never throws, and it resolves to false
\* when the snapshot file is missing, unreadable, not valid JSON or not of the
\* structure saveToLocalStorage writes.
C18_MalformedLoadsFalse ==
    LoadReturned =>
        /\ ret.threw = "none"
        /\ ~SnapshotIsWellFormed(file) => ret.out = FALSE

FailedSaveStep ==
    /\ ret'.op = "saveToLocalStorage"
    /\ ret'.arg \in {"failed", "truncated"}

\* C19: a saveToLocalStorage call whose write fails resolves without throwing
\* and leaves the chunk sequence, the id -> vector map and the client as they
\* were, which is all that getStatus and searchSimilarChunks read.
C19_FailedSaveKeepsStore ==
    [][FailedSaveStep =>
        /\ ret'.threw = "none"
        /\ chunks' = chunks
        /\ embeddings' = embeddings
        /\ openai' = openai]_vars

\* A save whose write failed returned on a store with chunks and vectors.
C19_Witness ==
    /\ ret.op = "saveToLocalStorage"
    /\ ret.arg \in {"failed", "truncated"}
    /\ ret.threw = "none"
    /\ Len(chunks) > 0
    /\ Len(embeddings) > 0

StatusReturned == ret.op = "getStatus"

\* C20: whatever the store holds, getStatus reports the length of the chunk
\* sequence, the size of the id -> vector map, and isReady exactly when both
\* are non-zero.
C20_StatusReportsStore ==
    StatusReturned =>
        /\ ret.out.chunksCount = Len(chunks)
        /\ ret.out.embeddingsCount = Cardinality(MapKeys(embeddings))
        /\ ret.out.isReady <=> (Len(chunks) # 0 /\ Cardinality(MapKeys(embeddings)) # 0)

\* getStatus reported a store with chunks and no vector as not ready.
C20_Witness ==
    /\ StatusReturned
    /\ Len(chunks) > 0
    /\ embeddings = <<>>
    /\ ret.out.chunksCount > 0
    /\ ret.out.embeddingsCount = 0
    /\ ret.out.isReady = FALSE


-----------------------------------------------------------------------------
(* Properties of the DB update (checked under SpecUpdate) *)

Finishes(r) == requests[r].pc # "done" /\ requests'[r].pc = "done"

IndexedContents(chs) == [i \in DOMAIN chs |-> chs[i].content]

\* C21: a DB update that succeeds reports, and leaves in the snapshot file, the
\* chunks of the Notion database as it is at the time of the request, also
\* when an earlier update has left a snapshot.
C21_UpdateSynchronizes ==
    [][\A r \in RequestIds :
          (Finishes(r) /\ requests'[r].response.success) =>
              LET latest == ProcessPages(NotionPages(requests'[r].database), BuildTime)
              IN /\ requests'[r].response.status.chunksCount = Len(latest)
                 /\ IndexedContents(requests'[r].chunks) = IndexedContents(latest)
                 /\ SnapshotIsWellFormed(file') =>
                        IndexedContents(LoadFromFile(file', <<>>, <<>>).chunks)
                            = IndexedContents(latest)]_vars

-----------------------------------------------------------------------------
(* Properties of the date windows (checked under SpecWindow) *)

\* The first family, in the order recent, upcoming, past, that a temporal query
\* matches.
ActiveFamily(query) ==
    IF IsRecentQuery(query) THEN "recent"
    ELSE IF IsUpcomingQuery(query) THEN "upcoming"
    ELSE "past"

\* The windows as the specification states them.
InWindow(family, d, now) ==
    CASE family = "recent" -> now - 7 * HoursPerDay <= d /\ d <= now + 7 * HoursPerDay
      [] family = "upcoming" -> d > now
      [] family = "past" -> d < now

HasDateIn(c, family) ==
    \E d \in Range(ExtractDatesFromChunk(c)) : InWindow(family, d, ret.arg.now)

\* C22: on a query of a temporal family an embedded chunk with an extracted
\* date in the window of the active family (recent: within seven days of now,
\* both ends included; upcoming: after now; past: before now) is retained with
\* 1.2 of its similarity.
C22_WindowBonus ==
    (SearchReturned /\ IsTemporalQuery(ret.arg.query)) =>
        \A i \in EmbeddedChunks :
            HasDateIn(chunks[i], ActiveFamily(ret.arg.query))
                => RetainedWith(chunks[i], 12)

\* A recent query returned, with 1.2 of its similarity, a chunk whose only date
\* lies exactly seven days before the time of the search.
C22_Witness ==
    /\ SearchReturned
    /\ IsRecentQuery(ret.arg.query)
    /\ \E k \in DOMAIN ret.out :
          /\ ExtractDatesFromChunk(ret.out[k].chunk) = <<ret.arg.now - 7 * HoursPerDay>>
          /\ ret.out[k].score # 0
          /\ ret.out[k].score
                = CosineSimilarity(ret.arg.queryEmbedding,
                                   TheValue(ret.out[k].chunk.embedding)) * 12

MatchesSeveralFamilies(query) ==
    Cardinality({family \in {"recent", "upcoming", "past"} :
                    \/ family = "recent" /\ IsRecentQuery(query)
                    \/ family = "upcoming" /\ IsUpcomingQuery(query)
                    \/ family = "past" /\ IsPastQuery(query)}) > 1

\* C23: on a query that matches several temporal families the window of the
\* first of them, in the order recent, upcoming, past, decides for every dated
\* chunk: with a date in that window it is retained with 1.2 of its
\* similarity, and without one it is dropped or retained with 0.3, whatever
\* the windows of the other families it matches.
C23_FirstFamilyDecides ==
    (SearchReturned /\ MatchesSeveralFamilies(ret.arg.query)) =>
        \A i \in EmbeddedChunks :
            ExtractDatesFromChunk(chunks[i]) # <<>> =>
                IF HasDateIn(chunks[i], ActiveFamily(ret.arg.query))
                THEN RetainedWith(chunks[i], 12)
                ELSE Dropped(chunks[i]) \/ RetainedWith(chunks[i], 3)

\* A query with an upcoming and a past keyword returned, with 0.3 of its
\* similarity, a chunk whose only date lies before the time of the search.
C23_Witness ==
    /\ SearchReturned
    /\ IsUpcomingQuery(ret.arg.query)
    /\ IsPastQuery(ret.arg.query)
    /\ ~IsRecentQuery(ret.arg.query)
    /\ \E k \in DOMAIN ret.out :
          /\ Len(ExtractDatesFromChunk(ret.out[k].chunk)) = 1
          /\ HasDateIn(ret.out[k].chunk, "past")
          /\ ret.out[k].score # 0
          /\ ret.out[k].score
                = CosineSimilarity(ret.arg.queryEmbedding,
                                   TheValue(ret.out[k].chunk.embedding)) * 3

-----------------------------------------------------------------------------
(* Properties of the date extraction (checked under SpecDates) *)

DatesReturned == ret.op = "extractDatesFromChunk"

TokenInRange(token) ==
    /\ token.year \in 2020..2030
    /\ token.month \in 1..12
    /\ token.day \in 1..31

\* C25: every date extractDatesFromChunk returns has a calendar year from 2020
\* to 2030, the days that the month of the token does not have included; and a
\* token with a year, month or day outside 2020..2030, 1..12, 1..31 gives no
\* date: what is returned then comes from the property.
C25_YearsInRange ==
    DatesReturned =>
        /\ \A d \in Range(ret.out) : GetFullYear(d) \in 2020..2030
        /\ ~TokenInRange(ret.arg.token) =>
              \/ ret.out = <<>>
              \/ /\ IsDateKey(ret.arg.key)
                 /\ ret.arg.value.year \in 2020..2030
                 /\ ret.out = <<NewDate(ret.arg.value.year, ret.arg.value.month - 1,
                                         ret.arg.value.day)>>

\* The token of 31 February 2030 gave the date 3 March 2030, next to the date
\* of a property.
C25_Witness ==
    /\ DatesReturned
    /\ ret.arg.token = [year |-> 2030, month |-> 2, day |-> 31]
    /\ Len(ret.out) = 2
    /\ ret.out[1] = NewDate(2030, 2, 3)
    /\ GetFullYear(ret.out[2]) = 2030

\* The requests that found no snapshot and have not yet answered: they are
\* between the check and the end of persisting.
Rebuilding == {r \in RequestIds : requests[r].pc \in {"query", "embed", "save"}}

Arrived == {r \in RequestIds : requests[r].pc # "none"}

\* C26: when two DB update requests both arrive while there is no snapshot
\* file, at most one of them at a time is between its check and the end of
\* its persisting, and at most one of them calls the embedding service and
\* writes the snapshot.
C26_OneRebuildAtATime ==
    (Cardinality(Arrived) >= 2 /\ \A r \in Arrived : ~requests[r].snapshotAtArrival) =>
        /\ Cardinality(Rebuilding) <= 1
        /\ Cardinality({r \in Arrived : requests[r].calls > 0}) <= 1
        /\ Cardinality({r \in Arrived : requests[r].wrote}) <= 1

\* C26 amended: the handlers are not serialized; it is the request's own check
\* that decides: a request whose loadFromLocalStorage returned true calls the
\* embedding service not once and writes nothing, and one whose check
\* returned false rebuilds, whatever the other requests do.
C26_CheckDecides ==
    \A r \in Arrived :
        /\ requests[r].hasExistingData =>
              /\ requests[r].calls = 0
              /\ ~requests[r].wrote
              /\ requests[r].pc = "done"
        /\ (requests[r].calls > 0 \/ requests[r].wrote) => ~requests[r].hasExistingData

\* Two requests that arrived without a snapshot have both called the embedding
\* service and both written the snapshot.
C26_Witness ==
    /\ \A r \in RequestIds :
          /\ requests[r].pc = "done"
          /\ ~requests[r].snapshotAtArrival
          /\ ~requests[r].hasExistingData
          /\ requests[r].calls > 0
          /\ requests[r].wrote

-----------------------------------------------------------------------------
(* Readiness (checked under SpecReindex) and the order of the adjusted        *)
(* scores (checked under SpecSearch)                                         *)

\* C27: whenever getStatus would report isReady, at least one chunk of the
\* chunk sequence carries an embedding, so that a search can return a result.
C27_ReadyMeansSearchable ==
    StatusOf(chunks, embeddings).isReady =>
        \E i \in DOMAIN chunks : chunks[i].embedding # None

\* The place of a scored chunk in the intended preference on a temporal query:
\* 3 with a date in the window, 2 without any date, 1 with dates that all miss.
Preference(c) ==
    IF ExtractDatesFromChunk(c) = <<>> THEN 2
    ELSE IF HasDateIn(c, ActiveFamily(ret.arg.query)) THEN 3
    ELSE 1

RawSimilarity(c) == CosineSimilarity(ret.arg.queryEmbedding, TheValue(c.embedding))

\* C28: on a temporal query, of two returned chunks with the same similarity,
\* negative similarities included, the one that is higher in the preference
\* (date in the window, then no date, then dates that all miss) has a score at
\* least as high as the other.
C28_PreferencePreserved ==
    (SearchReturned /\ IsTemporalQuery(ret.arg.query)) =>
        \A a, b \in DOMAIN ret.out :
            (/\ RawSimilarity(ret.out[a].chunk) = RawSimilarity(ret.out[b].chunk)
             /\ Preference(ret.out[a].chunk) > Preference(ret.out[b].chunk))
                => ret.out[a].score >= ret.out[b].score

-----------------------------------------------------------------------------
(* Properties of the chat request (checked under SpecChat) *)

ChatReturned == ret.op = "POST /api/chat"

\* The attempt to use the index did not get through: the database query
\* failed, the database has no row, or an embedding call failed.
PipelineFailed ==
    /\ ret.arg.attempt
    /\ ret.arg.failure # "none" \/ ret.arg.database = <<>>

\* C30: a failure in the steps that build and search the index does not fail
\* the chat request: the completion is called with the client's notionData as
\* context, or with the fixed text when notionData is empty or blank, and the
\* response, which only a failure of the completion turns into an error, has
\* ragUsed = false.  ragUsed = true is returned only when the pages were
\* indexed, every chunk embedded and the search completed.
C30_PipelineFailureFallsBack ==
    ChatReturned =>
        /\ PipelineFailed =>
              /\ ret.out.completion =
                    IF \A i \in DOMAIN ret.arg.notionData :
                           ret.arg.notionData[i] \in {32, 10}
                    THEN <<49324, 50857, 32, 44032, 45733, 54620, 32, 45936, 51060,
                           53552, 44032, 32, 50630, 49845, 45768, 45796, 46>>
                    ELSE ret.arg.notionData
              /\ ret.out.code = 200 => ~ret.out.ragUsed
        /\ (ret.out.code = 200 /\ ret.out.ragUsed) =>
              /\ ret.arg.attempt
              /\ ret.arg.failure = "none"
              /\ chunks # <<>>
              /\ IndexedContents(chunks) = IndexedContents(ProcessPages(ret.arg.database, BuildTime))
              /\ \A i \in DOMAIN chunks : chunks[i].embedding # None

\* The embedding run of a request failed, and the request was answered 200
\* with ragUsed = false from the fixed text, the client having sent a blank
\* notionData.
C30_Witness ==
    /\ ChatReturned
    /\ ret.arg.attempt
    /\ ret.arg.failure = "embed"
    /\ ret.arg.database # <<>>
    /\ ret.arg.notionData = <<32, 10>>
    /\ ret.out.code = 200
    /\ ~ret.out.ragUsed
    /\ ret.out.contextLength = 17

==============================================================================
